---- MODULE Spec2Model ----
(***************************************************************************)
(* Storage core of the single-file SQL database: Pager (paged file with a  *)
(* header page), B+Tree (leaf / internal nodes, splits, root promotion)    *)
(* and the Database executor (catalog page, CREATE TABLE / INSERT).        *)
(***************************************************************************)
EXTENDS Integers, Sequences, FiniteSets, TLC

\* ------------------------------------------------------------------
\* Bounds of the model
\* ------------------------------------------------------------------
\* keys 0..MaxKey are offered to BTree.insert in any order
MaxKey == 5
\* keys MaxKey+1..MaxAscKey are offered in ascending order only (each one after its predecessor)
MaxAscKey == 16
\* keys 0..VariedMaxKey are offered with two different rows in SpecTree
VariedMaxKey == 0

\* ------------------------------------------------------------------
\* Program constants
\* ------------------------------------------------------------------
MAGIC_NUMBER == 1397836884
DEFAULT_PAGE_SIZE == 4096
DefaultMaxLeafCells == 4
DefaultMaxInternalKeys == 4

PAGE_TYPE == [UNUSED |-> 0, SCHEMA |-> 1, LEAF_NODE |-> 2, INTERNAL_NODE |-> 3]

VARIABLES
  file,             \* the database file: page n is file[n+1]
  header,           \* Pager.header (in memory)
  tables,           \* Database.tables, in Map insertion order
  btrees,           \* Database.btrees (or the one BTree under test), in insertion order
  opened,           \* TRUE while a Pager / Database object holds the file open
  result,           \* what the last operation returned
  inserted,         \* history: the records of the inserts that returned success
  maxLeafCells,     \* BTree.maxLeafCells
  maxInternalKeys,  \* BTree.maxInternalKeys
  pc                \* where the pager stands inside an operation: "idle" between operations,
                    \* "absent" while the file does not exist, else the file write that comes next

vars == <<file, header, tables, btrees, opened, result, inserted, maxLeafCells, maxInternalKeys, pc>>

\* ------------------------------------------------------------------
\* ColumnValue = number | string | null
\* ------------------------------------------------------------------
NullV == [kind |-> "null", num |-> 0, str |-> ""]
NumV(n) == [kind |-> "number", num |-> n, str |-> ""]
StrV(s) == [kind |-> "string", num |-> 0, str |-> s]

\* UTF-8 byte length of the strings the model uses
ByteLength(s) ==
  CASE s = "" -> 0
    [] s \in {"a", "b", "1", "2", "3", "4", "5", "6", "7", "8", "9", "0", "t"} -> 1
    [] s \in {"id", "ID", "-1"} -> 2
    [] s \in {"abc"} -> 3
    [] s \in {"name", "Name"} -> 4
    [] s \in {"users", "USERS", "posts"} -> 5
    [] OTHER -> 6

\* one tagged value of a leaf cell: tag 0x00 NULL, 0x01 INTEGER (i32), 0x02 TEXT (u16 length + bytes)
writeValue(value) ==
  IF value.kind = "null" THEN [tag |-> 0, int |-> 0, strLen |-> 0, bytes |-> ""]
  ELSE IF value.kind = "number" THEN [tag |-> 1, int |-> value.num, strLen |-> 0, bytes |-> ""]
  ELSE [tag |-> 2, int |-> 0, strLen |-> ByteLength(value.str), bytes |-> value.str]

readValue(tv) ==
  IF tv.tag = 0 THEN NullV
  ELSE IF tv.tag = 1 THEN NumV(tv.int)
  ELSE StrV(tv.bytes)

\* ------------------------------------------------------------------
\* Pager.  A pager value pg is [file, header]; page n is pg.file[n+1].
\* ------------------------------------------------------------------
ZeroPage == [type |-> 0]

writeFileHeader(h) ==
  [magic |-> h.magic, pageSize |-> h.pageSize, totalPages |-> h.totalPages, schemaPage |-> h.schemaPage]

\* the four header fields the first 14 bytes of a page buffer decode to.  A page written by
\* writeFileHeader decodes to what was written; a zero page to zeros; a leaf page of no cells
\* (type at byte 0, cellCount at 1..2, rightSibling at 3..6) to the magic type + 2^24 * the low
\* byte of rightSibling and, for a sibling below 256, zeros in the other fields
pageAsHeader(buf) ==
  IF "magic" \in DOMAIN buf
    THEN [magic |-> buf.magic, pageSize |-> buf.pageSize,
          totalPages |-> buf.totalPages, schemaPage |-> buf.schemaPage]
  ELSE IF "rightSibling" \in DOMAIN buf
    THEN [magic |-> buf.type + 16777216 * (buf.rightSibling % 256), pageSize |-> 0,
          totalPages |-> 0, schemaPage |-> 0]
  ELSE [magic |-> buf.type, pageSize |-> 0, totalPages |-> 0, schemaPage |-> 0]

readFileHeaderAnyMagic(buf) ==
  [success |-> TRUE, error |-> "", data |-> pageAsHeader(buf)]

readFileHeader(buf) ==
  IF pageAsHeader(buf).magic # MAGIC_NUMBER
    THEN [success |-> FALSE, error |-> "Invalid magic number", data |-> buf]
    ELSE [success |-> TRUE, error |-> "", data |-> pageAsHeader(buf)]

\* writeSync at offset pageNum * pageSize: overwrites, appends, or leaves a zero-filled hole
writePageRaw(f, pageNum, data) ==
  IF pageNum < Len(f) THEN [f EXCEPT ![pageNum + 1] = data]
  ELSE [i \in 1..(pageNum + 1) |-> IF i <= Len(f) THEN f[i] ELSE IF i = pageNum + 1 THEN data ELSE ZeroPage]

flushHeader(pg) ==
  [pg EXCEPT !.file = writePageRaw(pg.file, 0, writeFileHeader(pg.header))]

allocatePageNoFlush(pg) ==
  LET pageNum == pg.header.totalPages
      h1 == [pg.header EXCEPT !.totalPages = pageNum + 1]
      f1 == writePageRaw(pg.file, pageNum, ZeroPage)
  IN  [success |-> TRUE, error |-> "", data |-> pageNum, pager |-> [file |-> f1, header |-> h1]]

allocatePageReturnsNew(pg) ==
  LET pageNum == pg.header.totalPages
      h1 == [pg.header EXCEPT !.totalPages = pageNum + 1]
      f1 == writePageRaw(pg.file, pageNum, ZeroPage)
  IN  [success |-> TRUE, error |-> "", data |-> pageNum + 1,
       pager |-> flushHeader([file |-> f1, header |-> h1])]

allocatePage(pg) ==
  LET pageNum == pg.header.totalPages
      h1 == [pg.header EXCEPT !.totalPages = pageNum + 1]
      f1 == writePageRaw(pg.file, pageNum, ZeroPage)
  IN  [success |-> TRUE, error |-> "", data |-> pageNum,
       pager |-> flushHeader([file |-> f1, header |-> h1])]

readPage(pg, pageNum) ==
  IF pageNum < 0 \/ pageNum >= pg.header.totalPages
    THEN [success |-> FALSE, error |-> "out of range", data |-> ZeroPage]
    ELSE [success |-> TRUE, error |-> "",
          data |-> IF pageNum < Len(pg.file) THEN pg.file[pageNum + 1] ELSE ZeroPage]

\* data.length: a buffer the model builds as a page has the page size; a buffer of another
\* size carries its length
bufferLength(pg, data) == IF "length" \in DOMAIN data THEN data.length ELSE pg.header.pageSize

writePageAnySize(pg, pageNum, data) ==
  IF pageNum < 0 \/ pageNum >= pg.header.totalPages
    THEN [success |-> FALSE, error |-> "out of range", pager |-> pg]
    ELSE [success |-> TRUE, error |-> "",
          pager |-> [pg EXCEPT !.file = writePageRaw(pg.file, pageNum, data)]]

writePage(pg, pageNum, data) ==
  IF pageNum < 0 \/ pageNum >= pg.header.totalPages
    THEN [success |-> FALSE, error |-> "out of range", pager |-> pg]
  ELSE IF bufferLength(pg, data) # pg.header.pageSize
    THEN [success |-> FALSE, error |-> "Buffer size does not match page size", pager |-> pg]
    ELSE [success |-> TRUE, error |-> "",
          pager |-> [pg EXCEPT !.file = writePageRaw(pg.file, pageNum, data)]]

\* Pager.open on a path that does not exist: header page and empty schema page
NewHeader == [magic |-> MAGIC_NUMBER, pageSize |-> DEFAULT_PAGE_SIZE, totalPages |-> 2, schemaPage |-> 1]
EmptySchemaPage == [type |-> PAGE_TYPE.SCHEMA, tableCount |-> 0, entries |-> <<>>]

PagerOpenNew ==
  LET f0 == writePageRaw(<<>>, 0, writeFileHeader(NewHeader))
      f1 == writePageRaw(f0, 1, EmptySchemaPage)
  IN  [file |-> f1, header |-> NewHeader]

\* Pager.open on an existing file
PagerOpenExisting(f) ==
  LET headerResult == readFileHeader(f[1])
  IN  IF ~headerResult.success
        THEN [success |-> FALSE, error |-> headerResult.error, pager |-> [file |-> f, header |-> NewHeader]]
        ELSE [success |-> TRUE, error |-> "", pager |-> [file |-> f, header |-> headerResult.data]]

PagerCloseFreshHeader(pg) == flushHeader([pg EXCEPT !.header = NewHeader])

\* Pager.close
PagerClose(pg) == flushHeader(pg)

\* ------------------------------------------------------------------
\* B+Tree.  Leaf page [type, cellCount, rightSibling, cells]; internal page
\* [type, keyCount, leftmostChild, entries]; a BTreeRecord is [key, values].
\* Mutating operations return [success, error, pager, root].
\* ------------------------------------------------------------------
Min(S) == CHOOSE x \in S : \A y \in S : x <= y
Max(S) == CHOOSE x \in S : \A y \in S : x >= y

SubSeqFrom(s, from) == SubSeq(s, from, Len(s))
\* Array.prototype.splice(pos, 0, x) with a 0-based pos
Splice(s, pos, x) == SubSeq(s, 1, pos) \o <<x>> \o SubSeqFrom(s, pos + 1)

readLeafCells(page, cellCount) ==
  [i \in 1..cellCount |->
     [key |-> page.cells[i].key,
      values |-> [j \in 1..page.cells[i].valueCount |-> readValue(page.cells[i].values[j])]]]

\* the cells part of a leaf page (cell count at [1..2], cells from offset 7)
writeLeafCellsToBuffer(page, cells) ==
  [page EXCEPT !.cellCount = Len(cells),
               !.cells = [i \in 1..Len(cells) |->
                            [key |-> cells[i].key,
                             valueCount |-> Len(cells[i].values),
                             values |-> [j \in 1..Len(cells[i].values) |-> writeValue(cells[i].values[j])]]]]

\* writeUInt32LE(key) and writeInt32LE(value) throw a RangeError outside their ranges;
\* the exception leaves insert before any page is written
INT32_MAX == 2147483647
RangeError == "RangeError thrown"
Encodable(cells) ==
  \A i \in 1..Len(cells) :
    /\ cells[i].key >= 0
    /\ \A j \in 1..Len(cells[i].values) :
         cells[i].values[j].kind = "number" =>
           (cells[i].values[j].num <= INT32_MAX /\ cells[i].values[j].num >= -INT32_MAX - 1)

\* Buffer.alloc + type byte + right sibling + cells
LeafPage(rightSibling, cells) ==
  writeLeafCellsToBuffer([type |-> PAGE_TYPE.LEAF_NODE, cellCount |-> 0, rightSibling |-> rightSibling, cells |-> <<>>], cells)

readInternalEntries(page) == [i \in 1..page.keyCount |-> page.entries[i]]

writeInternalNode(leftmostChild, entries) ==
  [type |-> PAGE_TYPE.INTERNAL_NODE, keyCount |-> Len(entries), leftmostChild |-> leftmostChild, entries |-> entries]

findChildPageLE(page, key) ==
  LET greater == {i \in 1..page.keyCount : key <= page.entries[i].key}
  IN  IF greater # {}
        THEN IF Min(greater) = 1 THEN page.leftmostChild
             ELSE page.entries[Min(greater) - 1].childPageNum
        ELSE IF page.keyCount = 0 THEN page.leftmostChild
             ELSE page.entries[page.keyCount].childPageNum

findChildPage(page, key) ==
  LET greater == {i \in 1..page.keyCount : key < page.entries[i].key}
  IN  IF greater # {}
        THEN IF Min(greater) = 1 THEN page.leftmostChild
             ELSE page.entries[Min(greater) - 1].childPageNum
        ELSE IF page.keyCount = 0 THEN page.leftmostChild
             ELSE page.entries[page.keyCount].childPageNum

sortedInsertPosEnd(keys, key) == Len(keys)

\* the position the while loops of insert / propagateSplit stop at (0-based)
sortedInsertPos(keys, key) ==
  Cardinality({i \in 1..Len(keys) : \A j \in 1..i : keys[j] < key})

leafOverflowsAtMax(cells) == Len(cells) >= maxLeafCells

\* the overflow check of insert: cells.length <= this.maxLeafCells returns without a split
leafOverflows(cells) == Len(cells) > maxLeafCells

RECURSIVE findLeafPage(_, _, _, _)
findLeafPage(pg, pageNum, key, path) ==
  LET readResult == readPage(pg, pageNum)
  IN  IF ~readResult.success
        THEN [success |-> FALSE, error |-> readResult.error, data |-> 0, path |-> path]
      ELSE IF readResult.data.type = PAGE_TYPE.LEAF_NODE
        THEN [success |-> TRUE, error |-> "", data |-> pageNum, path |-> path]
      ELSE findLeafPage(pg, findChildPage(readResult.data, key), key, Append(path, pageNum))

BTreeCreateTwoPages(pg) ==
  LET allocResult == allocatePage(allocatePage(pg).pager)
      rootPageNum == allocResult.data
      writeResult == writePage(allocResult.pager, rootPageNum, LeafPage(0, <<>>))
  IN  [success |-> writeResult.success, error |-> writeResult.error,
       pager |-> writeResult.pager, root |-> rootPageNum]

BTreeCreate(pg) ==
  LET allocResult == allocatePage(pg)
      rootPageNum == allocResult.data
      writeResult == writePage(allocResult.pager, rootPageNum, LeafPage(0, <<>>))
  IN  [success |-> writeResult.success, error |-> writeResult.error,
       pager |-> writeResult.pager, root |-> rootPageNum]

splitLeafNodeNoSibling(pg, pageNum, cells) ==
  LET readResult == readPage(pg, pageNum)
      oldSiblingPageNum == readResult.data.rightSibling
      splitPoint == (Len(cells) + 1) \div 2
      leftCells == SubSeq(cells, 1, splitPoint)
      rightCells == SubSeqFrom(cells, splitPoint + 1)
      promotedKey == rightCells[1].key
      allocResult == allocatePage(pg)
      newPageNum == allocResult.data
      wr1 == writePage(allocResult.pager, newPageNum, LeafPage(0, rightCells))
      wr2 == writePage(wr1.pager, pageNum, LeafPage(newPageNum, leftCells))
  IN  IF ~readResult.success
        THEN [success |-> FALSE, error |-> readResult.error, pager |-> pg, promotedKey |-> 0, newPageNum |-> 0]
      ELSE IF ~wr1.success
        THEN [success |-> FALSE, error |-> wr1.error, pager |-> wr1.pager, promotedKey |-> 0, newPageNum |-> 0]
      ELSE IF ~wr2.success
        THEN [success |-> FALSE, error |-> wr2.error, pager |-> wr2.pager, promotedKey |-> 0, newPageNum |-> 0]
      ELSE [success |-> TRUE, error |-> "", pager |-> wr2.pager,
            promotedKey |-> promotedKey, newPageNum |-> newPageNum]

splitLeafNodeFloor(pg, pageNum, cells) ==
  LET readResult == readPage(pg, pageNum)
      oldSiblingPageNum == readResult.data.rightSibling
      splitPoint == Len(cells) \div 2
      leftCells == SubSeq(cells, 1, splitPoint)
      rightCells == SubSeqFrom(cells, splitPoint + 1)
      promotedKey == rightCells[1].key
      allocResult == allocatePage(pg)
      newPageNum == allocResult.data
      wr1 == writePage(allocResult.pager, newPageNum, LeafPage(oldSiblingPageNum, rightCells))
      wr2 == writePage(wr1.pager, pageNum, LeafPage(newPageNum, leftCells))
  IN  IF ~readResult.success
        THEN [success |-> FALSE, error |-> readResult.error, pager |-> pg, promotedKey |-> 0, newPageNum |-> 0]
      ELSE IF ~wr1.success
        THEN [success |-> FALSE, error |-> wr1.error, pager |-> wr1.pager, promotedKey |-> 0, newPageNum |-> 0]
      ELSE IF ~wr2.success
        THEN [success |-> FALSE, error |-> wr2.error, pager |-> wr2.pager, promotedKey |-> 0, newPageNum |-> 0]
      ELSE [success |-> TRUE, error |-> "", pager |-> wr2.pager,
            promotedKey |-> promotedKey, newPageNum |-> newPageNum]

splitLeafNodeExtraPage(pg, pageNum, cells) ==
  LET readResult == readPage(pg, pageNum)
      oldSiblingPageNum == readResult.data.rightSibling
      splitPoint == (Len(cells) + 1) \div 2
      leftCells == SubSeq(cells, 1, splitPoint)
      rightCells == SubSeqFrom(cells, splitPoint + 1)
      promotedKey == rightCells[1].key
      allocResult == allocatePage(allocatePage(pg).pager)
      newPageNum == allocResult.data
      wr1 == writePage(allocResult.pager, newPageNum, LeafPage(oldSiblingPageNum, rightCells))
      wr2 == writePage(wr1.pager, pageNum, LeafPage(newPageNum, leftCells))
  IN  IF ~readResult.success
        THEN [success |-> FALSE, error |-> readResult.error, pager |-> pg, promotedKey |-> 0, newPageNum |-> 0]
      ELSE IF ~wr1.success
        THEN [success |-> FALSE, error |-> wr1.error, pager |-> wr1.pager, promotedKey |-> 0, newPageNum |-> 0]
      ELSE IF ~wr2.success
        THEN [success |-> FALSE, error |-> wr2.error, pager |-> wr2.pager, promotedKey |-> 0, newPageNum |-> 0]
      ELSE [success |-> TRUE, error |-> "", pager |-> wr2.pager,
            promotedKey |-> promotedKey, newPageNum |-> newPageNum]

splitLeafNode(pg, pageNum, cells) ==
  LET readResult == readPage(pg, pageNum)
      oldSiblingPageNum == readResult.data.rightSibling
      splitPoint == (Len(cells) + 1) \div 2
      leftCells == SubSeq(cells, 1, splitPoint)
      rightCells == SubSeqFrom(cells, splitPoint + 1)
      promotedKey == rightCells[1].key
      allocResult == allocatePage(pg)
      newPageNum == allocResult.data
      wr1 == writePage(allocResult.pager, newPageNum, LeafPage(oldSiblingPageNum, rightCells))
      wr2 == writePage(wr1.pager, pageNum, LeafPage(newPageNum, leftCells))
  IN  IF ~readResult.success
        THEN [success |-> FALSE, error |-> readResult.error, pager |-> pg, promotedKey |-> 0, newPageNum |-> 0]
      ELSE IF ~wr1.success
        THEN [success |-> FALSE, error |-> wr1.error, pager |-> wr1.pager, promotedKey |-> 0, newPageNum |-> 0]
      ELSE IF ~wr2.success
        THEN [success |-> FALSE, error |-> wr2.error, pager |-> wr2.pager, promotedKey |-> 0, newPageNum |-> 0]
      ELSE [success |-> TRUE, error |-> "", pager |-> wr2.pager,
            promotedKey |-> promotedKey, newPageNum |-> newPageNum]

splitInternalNodeCopy(pg, pageNum) ==
  LET readResult == readPage(pg, pageNum)
      page == readResult.data
      leftmostChild == page.leftmostChild
      entries == readInternalEntries(page)
      splitPoint == Len(entries) \div 2
      promotedKey == entries[splitPoint + 1].key
      leftEntries == SubSeq(entries, 1, splitPoint)
      rightEntries == SubSeqFrom(entries, splitPoint + 1)
      rightLeftmostChild == entries[splitPoint + 1].childPageNum
      allocResult == allocatePage(pg)
      newPageNum == allocResult.data
      wr1 == writePage(allocResult.pager, newPageNum, writeInternalNode(rightLeftmostChild, rightEntries))
      wr2 == writePage(wr1.pager, pageNum, writeInternalNode(leftmostChild, leftEntries))
  IN  IF ~readResult.success
        THEN [success |-> FALSE, error |-> readResult.error, pager |-> pg, promotedKey |-> 0, newPageNum |-> 0]
      ELSE IF ~wr1.success
        THEN [success |-> FALSE, error |-> wr1.error, pager |-> wr1.pager, promotedKey |-> 0, newPageNum |-> 0]
      ELSE IF ~wr2.success
        THEN [success |-> FALSE, error |-> wr2.error, pager |-> wr2.pager, promotedKey |-> 0, newPageNum |-> 0]
      ELSE [success |-> TRUE, error |-> "", pager |-> wr2.pager,
            promotedKey |-> promotedKey, newPageNum |-> newPageNum]

splitInternalNodeCeil(pg, pageNum) ==
  LET readResult == readPage(pg, pageNum)
      page == readResult.data
      leftmostChild == page.leftmostChild
      entries == readInternalEntries(page)
      splitPoint == (Len(entries) + 1) \div 2
      promotedKey == entries[splitPoint + 1].key
      leftEntries == SubSeq(entries, 1, splitPoint)
      rightEntries == SubSeqFrom(entries, splitPoint + 2)
      rightLeftmostChild == entries[splitPoint + 1].childPageNum
      allocResult == allocatePage(pg)
      newPageNum == allocResult.data
      wr1 == writePage(allocResult.pager, newPageNum, writeInternalNode(rightLeftmostChild, rightEntries))
      wr2 == writePage(wr1.pager, pageNum, writeInternalNode(leftmostChild, leftEntries))
  IN  IF ~readResult.success
        THEN [success |-> FALSE, error |-> readResult.error, pager |-> pg, promotedKey |-> 0, newPageNum |-> 0]
      ELSE IF ~wr1.success
        THEN [success |-> FALSE, error |-> wr1.error, pager |-> wr1.pager, promotedKey |-> 0, newPageNum |-> 0]
      ELSE IF ~wr2.success
        THEN [success |-> FALSE, error |-> wr2.error, pager |-> wr2.pager, promotedKey |-> 0, newPageNum |-> 0]
      ELSE [success |-> TRUE, error |-> "", pager |-> wr2.pager,
            promotedKey |-> promotedKey, newPageNum |-> newPageNum]

splitInternalNodeFixedPoint(pg, pageNum) ==
  LET readResult == readPage(pg, pageNum)
      page == readResult.data
      leftmostChild == page.leftmostChild
      entries == readInternalEntries(page)
      splitPoint == 2
      promotedKey == entries[splitPoint + 1].key
      leftEntries == SubSeq(entries, 1, splitPoint)
      rightEntries == SubSeqFrom(entries, splitPoint + 2)
      rightLeftmostChild == entries[splitPoint + 1].childPageNum
      allocResult == allocatePage(pg)
      newPageNum == allocResult.data
      wr1 == writePage(allocResult.pager, newPageNum, writeInternalNode(rightLeftmostChild, rightEntries))
      wr2 == writePage(wr1.pager, pageNum, writeInternalNode(leftmostChild, leftEntries))
  IN  IF ~readResult.success
        THEN [success |-> FALSE, error |-> readResult.error, pager |-> pg, promotedKey |-> 0, newPageNum |-> 0]
      ELSE IF ~wr1.success
        THEN [success |-> FALSE, error |-> wr1.error, pager |-> wr1.pager, promotedKey |-> 0, newPageNum |-> 0]
      ELSE IF ~wr2.success
        THEN [success |-> FALSE, error |-> wr2.error, pager |-> wr2.pager, promotedKey |-> 0, newPageNum |-> 0]
      ELSE [success |-> TRUE, error |-> "", pager |-> wr2.pager,
            promotedKey |-> promotedKey, newPageNum |-> newPageNum]

splitInternalNode(pg, pageNum) ==
  LET readResult == readPage(pg, pageNum)
      page == readResult.data
      leftmostChild == page.leftmostChild
      entries == readInternalEntries(page)
      splitPoint == Len(entries) \div 2
      promotedKey == entries[splitPoint + 1].key
      leftEntries == SubSeq(entries, 1, splitPoint)
      rightEntries == SubSeqFrom(entries, splitPoint + 2)
      rightLeftmostChild == entries[splitPoint + 1].childPageNum
      allocResult == allocatePage(pg)
      newPageNum == allocResult.data
      wr1 == writePage(allocResult.pager, newPageNum, writeInternalNode(rightLeftmostChild, rightEntries))
      wr2 == writePage(wr1.pager, pageNum, writeInternalNode(leftmostChild, leftEntries))
  IN  IF ~readResult.success
        THEN [success |-> FALSE, error |-> readResult.error, pager |-> pg, promotedKey |-> 0, newPageNum |-> 0]
      ELSE IF ~wr1.success
        THEN [success |-> FALSE, error |-> wr1.error, pager |-> wr1.pager, promotedKey |-> 0, newPageNum |-> 0]
      ELSE IF ~wr2.success
        THEN [success |-> FALSE, error |-> wr2.error, pager |-> wr2.pager, promotedKey |-> 0, newPageNum |-> 0]
      ELSE [success |-> TRUE, error |-> "", pager |-> wr2.pager,
            promotedKey |-> promotedKey, newPageNum |-> newPageNum]

createNewRootSwapped(pg, root, leftPageNum, key, rightPageNum) ==
  LET allocResult == allocatePage(pg)
      newRootPageNum == allocResult.data
      writeResult == writePage(allocResult.pager, newRootPageNum,
                               writeInternalNode(rightPageNum, <<[key |-> key, childPageNum |-> leftPageNum]>>))
  IN  IF ~writeResult.success
        THEN [success |-> FALSE, error |-> writeResult.error, pager |-> writeResult.pager, root |-> root]
        ELSE [success |-> TRUE, error |-> "", pager |-> writeResult.pager, root |-> newRootPageNum]

createNewRootBothRight(pg, root, leftPageNum, key, rightPageNum) ==
  LET allocResult == allocatePage(pg)
      newRootPageNum == allocResult.data
      writeResult == writePage(allocResult.pager, newRootPageNum,
                               writeInternalNode(rightPageNum, <<[key |-> key, childPageNum |-> rightPageNum]>>))
  IN  IF ~writeResult.success
        THEN [success |-> FALSE, error |-> writeResult.error, pager |-> writeResult.pager, root |-> root]
        ELSE [success |-> TRUE, error |-> "", pager |-> writeResult.pager, root |-> newRootPageNum]

createNewRoot(pg, root, leftPageNum, key, rightPageNum) ==
  LET allocResult == allocatePage(pg)
      newRootPageNum == allocResult.data
      writeResult == writePage(allocResult.pager, newRootPageNum,
                               writeInternalNode(leftPageNum, <<[key |-> key, childPageNum |-> rightPageNum]>>))
  IN  IF ~writeResult.success
        THEN [success |-> FALSE, error |-> writeResult.error, pager |-> writeResult.pager, root |-> root]
        ELSE [success |-> TRUE, error |-> "", pager |-> writeResult.pager, root |-> newRootPageNum]

internalOverflowsLate(entries) == Len(entries) > maxInternalKeys + 1

\* the overflow check of propagateSplit: entries.length <= this.maxInternalKeys returns without a split
internalOverflows(entries) == Len(entries) > maxInternalKeys

RECURSIVE propagateSplitShift(_, _, _, _, _)
propagateSplitShift(pg, root, path, promotedKey, newChildPageNum) ==
  IF Len(path) = 0 THEN createNewRoot(pg, root, root, promotedKey, newChildPageNum)
  ELSE
    LET parentPageNum == path[1]
        rest == SubSeqFrom(path, 2)
        readResult == readPage(pg, parentPageNum)
        page == readResult.data
        old == readInternalEntries(page)
        insertPos == sortedInsertPos([i \in 1..Len(old) |-> old[i].key], promotedKey)
        entries == Splice(old, insertPos, [key |-> promotedKey, childPageNum |-> newChildPageNum])
        writeResult == writePage(pg, parentPageNum, writeInternalNode(page.leftmostChild, entries))
        overflow(splitResult) ==
          IF ~splitResult.success
            THEN [success |-> FALSE, error |-> splitResult.error, pager |-> splitResult.pager, root |-> root]
            ELSE propagateSplitShift(splitResult.pager, root, rest, splitResult.promotedKey, splitResult.newPageNum)
    IN  IF ~readResult.success
          THEN [success |-> FALSE, error |-> readResult.error, pager |-> pg, root |-> root]
        ELSE IF ~writeResult.success
          THEN [success |-> FALSE, error |-> writeResult.error, pager |-> writeResult.pager, root |-> root]
        ELSE IF ~internalOverflows(entries)
          THEN [success |-> TRUE, error |-> "", pager |-> writeResult.pager, root |-> root]
        ELSE overflow(splitInternalNode(writeResult.pager, parentPageNum))

RECURSIVE propagateSplit(_, _, _, _, _)
propagateSplit(pg, root, path, promotedKey, newChildPageNum) ==
  IF Len(path) = 0 THEN createNewRoot(pg, root, root, promotedKey, newChildPageNum)
  ELSE
    LET parentPageNum == path[Len(path)]
        rest == SubSeq(path, 1, Len(path) - 1)
        readResult == readPage(pg, parentPageNum)
        page == readResult.data
        old == readInternalEntries(page)
        insertPos == sortedInsertPos([i \in 1..Len(old) |-> old[i].key], promotedKey)
        entries == Splice(old, insertPos, [key |-> promotedKey, childPageNum |-> newChildPageNum])
        writeResult == writePage(pg, parentPageNum, writeInternalNode(page.leftmostChild, entries))
        overflow(splitResult) ==
          IF ~splitResult.success
            THEN [success |-> FALSE, error |-> splitResult.error, pager |-> splitResult.pager, root |-> root]
            ELSE propagateSplit(splitResult.pager, root, rest, splitResult.promotedKey, splitResult.newPageNum)
    IN  IF ~readResult.success
          THEN [success |-> FALSE, error |-> readResult.error, pager |-> pg, root |-> root]
        ELSE IF ~writeResult.success
          THEN [success |-> FALSE, error |-> writeResult.error, pager |-> writeResult.pager, root |-> root]
        ELSE IF ~internalOverflows(entries)
          THEN [success |-> TRUE, error |-> "", pager |-> writeResult.pager, root |-> root]
        ELSE overflow(splitInternalNode(writeResult.pager, parentPageNum))

\* the duplicate key check of insert
hasDuplicateKeyFirstOnly(cells, key) == Len(cells) > 0 /\ cells[1].key = key
hasDuplicateKey(cells, key) == \E i \in 1..Len(cells) : cells[i].key = key

\* BTree.insert on the tree rooted at root
insertDropsSibling(pg, root, record) ==
  LET findResult == findLeafPage(pg, root, record.key, <<>>)
      leafPageNum == findResult.data
      readResult == readPage(pg, leafPageNum)
      page == readResult.data
      cells == readLeafCells(page, page.cellCount)
      insertPos == sortedInsertPos([i \in 1..Len(cells) |-> cells[i].key], record.key)
      newCells == Splice(cells, insertPos, record)
      writeResult == writePage(pg, leafPageNum, LeafPage(0, newCells))
      overflow(splitResult) ==
        IF ~splitResult.success
          THEN [success |-> FALSE, error |-> splitResult.error, pager |-> splitResult.pager, root |-> root]
          ELSE propagateSplit(splitResult.pager, root, findResult.path,
                              splitResult.promotedKey, splitResult.newPageNum)
  IN  IF ~findResult.success
        THEN [success |-> FALSE, error |-> findResult.error, pager |-> pg, root |-> root]
      ELSE IF ~readResult.success
        THEN [success |-> FALSE, error |-> readResult.error, pager |-> pg, root |-> root]
      ELSE IF hasDuplicateKey(cells, record.key)
        THEN [success |-> FALSE, error |-> "Duplicate key", pager |-> pg, root |-> root]
      ELSE IF ~Encodable(newCells)
        THEN [success |-> FALSE, error |-> RangeError, pager |-> pg, root |-> root]
      ELSE IF ~writeResult.success
        THEN [success |-> FALSE, error |-> writeResult.error, pager |-> writeResult.pager, root |-> root]
      ELSE IF ~leafOverflows(newCells)
        THEN [success |-> TRUE, error |-> "", pager |-> writeResult.pager, root |-> root]
      ELSE overflow(splitLeafNode(writeResult.pager, leafPageNum, newCells))

insert(pg, root, record) ==
  LET findResult == findLeafPage(pg, root, record.key, <<>>)
      leafPageNum == findResult.data
      readResult == readPage(pg, leafPageNum)
      page == readResult.data
      cells == readLeafCells(page, page.cellCount)
      insertPos == sortedInsertPos([i \in 1..Len(cells) |-> cells[i].key], record.key)
      newCells == Splice(cells, insertPos, record)
      writeResult == writePage(pg, leafPageNum, LeafPage(page.rightSibling, newCells))
      overflow(splitResult) ==
        IF ~splitResult.success
          THEN [success |-> FALSE, error |-> splitResult.error, pager |-> splitResult.pager, root |-> root]
          ELSE propagateSplit(splitResult.pager, root, findResult.path,
                              splitResult.promotedKey, splitResult.newPageNum)
  IN  IF ~findResult.success
        THEN [success |-> FALSE, error |-> findResult.error, pager |-> pg, root |-> root]
      ELSE IF ~readResult.success
        THEN [success |-> FALSE, error |-> readResult.error, pager |-> pg, root |-> root]
      ELSE IF hasDuplicateKey(cells, record.key)
        THEN [success |-> FALSE, error |-> "Duplicate key", pager |-> pg, root |-> root]
      ELSE IF ~Encodable(newCells)
        THEN [success |-> FALSE, error |-> RangeError, pager |-> pg, root |-> root]
      ELSE IF ~writeResult.success
        THEN [success |-> FALSE, error |-> writeResult.error, pager |-> writeResult.pager, root |-> root]
      ELSE IF ~leafOverflows(newCells)
        THEN [success |-> TRUE, error |-> "", pager |-> writeResult.pager, root |-> root]
      ELSE overflow(splitLeafNode(writeResult.pager, leafPageNum, newCells))

\* BTree.search: [success, error, found, data]; found = FALSE is the null result
NoRecord == [key |-> 0, values |-> <<>>]

RECURSIVE searchInNode(_, _, _)
searchInNode(pg, pageNum, key) ==
  LET readResult == readPage(pg, pageNum)
      page == readResult.data
  IN  IF ~readResult.success
        THEN [success |-> FALSE, error |-> readResult.error, found |-> FALSE, data |-> NoRecord]
      ELSE IF page.type = PAGE_TYPE.LEAF_NODE
        THEN LET cells == readLeafCells(page, page.cellCount)
                 hits == {i \in 1..Len(cells) : cells[i].key = key}
             IN  IF hits # {}
                   THEN [success |-> TRUE, error |-> "", found |-> TRUE, data |-> cells[Min(hits)]]
                   ELSE [success |-> TRUE, error |-> "", found |-> FALSE, data |-> NoRecord]
      ELSE searchInNode(pg, findChildPage(page, key), key)

search(pg, root, key) == searchInNode(pg, root, key)

RECURSIVE findLeftmostLeafFirstEntry(_, _)
findLeftmostLeafFirstEntry(pg, pageNum) ==
  LET readResult == readPage(pg, pageNum)
  IN  IF ~readResult.success THEN [success |-> FALSE, error |-> readResult.error, data |-> 0]
      ELSE IF readResult.data.type = PAGE_TYPE.LEAF_NODE THEN [success |-> TRUE, error |-> "", data |-> pageNum]
      ELSE findLeftmostLeafFirstEntry(pg, readResult.data.entries[1].childPageNum)

RECURSIVE findLeftmostLeaf(_, _)
findLeftmostLeaf(pg, pageNum) ==
  LET readResult == readPage(pg, pageNum)
  IN  IF ~readResult.success THEN [success |-> FALSE, error |-> readResult.error, data |-> 0]
      ELSE IF readResult.data.type = PAGE_TYPE.LEAF_NODE THEN [success |-> TRUE, error |-> "", data |-> pageNum]
      ELSE findLeftmostLeaf(pg, readResult.data.leftmostChild)

\* the while loop of scan; it does not return when the sibling chain is cyclic,
\* which is the outcome "does not terminate" once more leaves were visited than pages exist
RECURSIVE scanLoop(_, _, _, _)
scanLoop(pg, currentPageNum, records, visited) ==
  IF currentPageNum = 0 THEN [success |-> TRUE, error |-> "", data |-> records]
  ELSE IF visited > pg.header.totalPages THEN [success |-> FALSE, error |-> "does not terminate", data |-> records]
  ELSE LET readResult == readPage(pg, currentPageNum)
           page == readResult.data
       IN  IF ~readResult.success THEN [success |-> FALSE, error |-> readResult.error, data |-> <<>>]
           ELSE scanLoop(pg, page.rightSibling, records \o readLeafCells(page, page.cellCount), visited + 1)

scan(pg, root) ==
  LET leftmostResult == findLeftmostLeaf(pg, root)
  IN  IF ~leftmostResult.success THEN [success |-> FALSE, error |-> leftmostResult.error, data |-> <<>>]
      ELSE scanLoop(pg, leftmostResult.data, <<>>, 0)

\* ------------------------------------------------------------------
\* Strings of the model: lower-casing, Number(s), String(n), code-unit order
\* ------------------------------------------------------------------
toLowerCase(s) ==
  CASE s = "USERS" -> "users"
    [] s = "ID" -> "id"
    [] s = "Name" -> "name"
    [] s = "ITEMS" -> "items"
    [] s = "QTY" -> "qty"
    [] OTHER -> s

\* Number(s) for a string literal: NaN, or a number that is or is not an integer
NumberOf(s) ==
  CASE s = "" -> [nan |-> FALSE, integer |-> TRUE, value |-> 0]
    [] s = "-1" -> [nan |-> FALSE, integer |-> TRUE, value |-> -1]
    [] s = "0" -> [nan |-> FALSE, integer |-> TRUE, value |-> 0]
    [] s = "1" -> [nan |-> FALSE, integer |-> TRUE, value |-> 1]
    [] s = "2" -> [nan |-> FALSE, integer |-> TRUE, value |-> 2]
    [] s = "3" -> [nan |-> FALSE, integer |-> TRUE, value |-> 3]
    [] s = "4" -> [nan |-> FALSE, integer |-> TRUE, value |-> 4]
    [] s = "5" -> [nan |-> FALSE, integer |-> TRUE, value |-> 5]
    [] s = "6" -> [nan |-> FALSE, integer |-> TRUE, value |-> 6]
    [] s = "7" -> [nan |-> FALSE, integer |-> TRUE, value |-> 7]
    [] s = "8" -> [nan |-> FALSE, integer |-> TRUE, value |-> 8]
    [] s = "9" -> [nan |-> FALSE, integer |-> TRUE, value |-> 9]
    [] s = "1.5" -> [nan |-> FALSE, integer |-> FALSE, value |-> 1]
    [] OTHER -> [nan |-> TRUE, integer |-> FALSE, value |-> 0]

\* String(n) for the numbers of the model
StringOf(n) ==
  CASE n = -1 -> "-1"
    [] n = 0 -> "0"
    [] n = 1 -> "1"
    [] n = 2 -> "2"
    [] n = 3 -> "3"
    [] n = 4 -> "4"
    [] n = 5 -> "5"
    [] n = 6 -> "6"
    [] n = 7 -> "7"
    [] n = 8 -> "8"
    [] n = 9 -> "9"
    [] OTHER -> "many"

\* the strings of the model in ascending UTF-16 code unit order
StringOrder ==
  <<"", "-1", "0", "1", "1.5", "2", "3", "4", "5", "6", "7", "8", "9",
    "ID", "ITEMS", "Name", "QTY", "USERS", "a", "abc", "age", "b", "id", "items", "many", "name", "nope",
    "posts", "qty", "t", "tags", "title", "users">>
StringRank(s) == CHOOSE i \in 1..Len(StringOrder) : StringOrder[i] = s

\* ------------------------------------------------------------------
\* Database.  A database value db is [pager, tables, btrees]; tables and btrees
\* are Maps keyed by the lower-cased table name, kept in insertion order.
\* Statement literals (string | number) are written like ColumnValues.
\* ------------------------------------------------------------------
MapHas(m, lname) == \E i \in 1..Len(m) : m[i].lname = lname
MapIndex(m, lname) == CHOOSE i \in 1..Len(m) : m[i].lname = lname
MapGet(m, lname) == m[MapIndex(m, lname)]
\* Map.prototype.set: replaces in place, or appends
MapSet(m, entry) ==
  IF MapHas(m, entry.lname) THEN [m EXCEPT ![MapIndex(m, entry.lname)] = entry] ELSE Append(m, entry)

COLUMN_TYPE_MAP(type) == CASE type = "INTEGER" -> 1 [] type = "TEXT" -> 2 [] OTHER -> 2
COLUMN_TYPE_REVERSE(typeTag) == CASE typeTag = 1 -> "INTEGER" [] typeTag = 2 -> "TEXT" [] OTHER -> "TEXT"

\* constraint flags: bit0 PRIMARY_KEY, bit1 NOT_NULL, bit2 UNIQUE
constraintFlagsOf(constraints) ==
  (IF "PRIMARY_KEY" \in constraints THEN 1 ELSE 0)
    + (IF "NOT_NULL" \in constraints THEN 2 ELSE 0)
    + (IF "UNIQUE" \in constraints THEN 4 ELSE 0)
constraintsOf(flags) ==
  (IF flags % 2 = 1 THEN {"PRIMARY_KEY"} ELSE {})
    \cup (IF (flags \div 2) % 2 = 1 THEN {"NOT_NULL"} ELSE {})
    \cup (IF (flags \div 4) % 2 = 1 THEN {"UNIQUE"} ELSE {})

saveSchema(pg, tbls) ==
  LET page ==
        [type |-> PAGE_TYPE.SCHEMA,
         tableCount |-> Len(tbls),
         entries |-> [i \in 1..Len(tbls) |->
            [nameLen |-> ByteLength(tbls[i].name),
             name |-> tbls[i].name,
             colCount |-> Len(tbls[i].columns),
             columns |-> [j \in 1..Len(tbls[i].columns) |->
                [nameLen |-> ByteLength(tbls[i].columns[j].name),
                 name |-> tbls[i].columns[j].name,
                 typeTag |-> COLUMN_TYPE_MAP(tbls[i].columns[j].type),
                 flags |-> constraintFlagsOf(tbls[i].columns[j].constraints)]],
             rootPage |-> tbls[i].rootPageNum]]]
  IN  writePage(pg, pg.header.schemaPage, page)

RECURSIVE loadEntriesAsWritten(_, _)
loadEntriesAsWritten(page, n) ==
  IF n = 0 THEN [tables |-> <<>>, btrees |-> <<>>]
  ELSE LET before == loadEntriesAsWritten(page, n - 1)
           e == page.entries[n]
           columns == [j \in 1..e.colCount |->
                         [name |-> e.columns[j].name,
                          type |-> COLUMN_TYPE_REVERSE(e.columns[j].typeTag),
                          constraints |-> constraintsOf(e.columns[j].flags)]]
           tableLower == e.name
       IN  [tables |-> MapSet(before.tables, [lname |-> tableLower, name |-> e.name,
                                              columns |-> columns, rootPageNum |-> e.rootPage]),
            btrees |-> MapSet(before.btrees, [lname |-> tableLower, rootPageNum |-> e.rootPage])]

\* the Maps loadSchema builds from the first n entries of the schema page
RECURSIVE loadEntries(_, _)
loadEntries(page, n) ==
  IF n = 0 THEN [tables |-> <<>>, btrees |-> <<>>]
  ELSE LET before == loadEntries(page, n - 1)
           e == page.entries[n]
           columns == [j \in 1..e.colCount |->
                         [name |-> e.columns[j].name,
                          type |-> COLUMN_TYPE_REVERSE(e.columns[j].typeTag),
                          constraints |-> constraintsOf(e.columns[j].flags)]]
           tableLower == toLowerCase(e.name)
       IN  [tables |-> MapSet(before.tables, [lname |-> tableLower, name |-> e.name,
                                              columns |-> columns, rootPageNum |-> e.rootPage]),
            btrees |-> MapSet(before.btrees, [lname |-> tableLower, rootPageNum |-> e.rootPage])]

loadSchema(pg) ==
  LET readResult == readPage(pg, pg.header.schemaPage)
  IN  IF ~readResult.success
        THEN [success |-> FALSE, error |-> readResult.error, tables |-> <<>>, btrees |-> <<>>]
        ELSE [success |-> TRUE, error |-> "",
              tables |-> loadEntries(readResult.data, readResult.data.tableCount).tables,
              btrees |-> loadEntries(readResult.data, readResult.data.tableCount).btrees]

\* Database.open on an existing file
DatabaseOpen(f) ==
  LET pagerResult == PagerOpenExisting(f)
      loadResult == loadSchema(pagerResult.pager)
  IN  IF ~pagerResult.success
        THEN [success |-> FALSE, error |-> pagerResult.error, pager |-> pagerResult.pager, tables |-> <<>>, btrees |-> <<>>]
      ELSE IF ~loadResult.success
        THEN [success |-> FALSE, error |-> loadResult.error, pager |-> PagerClose(pagerResult.pager), tables |-> <<>>, btrees |-> <<>>]
      ELSE [success |-> TRUE, error |-> "", pager |-> pagerResult.pager,
            tables |-> loadResult.tables, btrees |-> loadResult.btrees]

\* what an operation returned: QueryResult / BTreeResult plus the operation and table it was for
Res(op, success, error, table) ==
  [op |-> op, success |-> success, error |-> error, table |-> table, columns |-> <<>>, records |-> <<>>,
   message |-> <<>>]
NoResult == Res("none", TRUE, "", "")

Outcome(res, pg, tbls, bts) == [res |-> res, pager |-> pg, tables |-> tbls, btrees |-> bts]

\* the template literal `Table '${stmt.tableName}' created`, as its parts
createdMessage(name) == <<"Table '", name, "' created">>

executeCreateNoSave(db, stmt) ==
  LET tableName == toLowerCase(stmt.tableName)
      pkCount == Cardinality({i \in 1..Len(stmt.columns) : "PRIMARY_KEY" \in stmt.columns[i].constraints})
      treeResult == BTreeCreate(db.pager)
      schema == [lname |-> tableName, name |-> stmt.tableName, columns |-> stmt.columns, rootPageNum |-> treeResult.root]
      tbls == MapSet(db.tables, schema)
      bts == MapSet(db.btrees, [lname |-> tableName, rootPageNum |-> treeResult.root])
      saveResult == [success |-> TRUE, error |-> "", pager |-> treeResult.pager]
  IN  IF MapHas(db.tables, tableName)
        THEN Outcome(Res("create", FALSE, "already exists", tableName), db.pager, db.tables, db.btrees)
      ELSE IF pkCount > 1
        THEN Outcome(Res("create", FALSE, "Table can only have one PRIMARY KEY", tableName), db.pager, db.tables, db.btrees)
      ELSE IF ~treeResult.success
        THEN Outcome(Res("create", FALSE, treeResult.error, tableName), treeResult.pager, db.tables, db.btrees)
      ELSE IF ~saveResult.success
        THEN Outcome(Res("create", FALSE, saveResult.error, tableName), saveResult.pager, tbls, bts)
      ELSE Outcome([Res("create", TRUE, "", tableName) EXCEPT !.message = createdMessage(stmt.tableName)],
                   saveResult.pager, tbls, bts)

executeCreateCheckLate(db, stmt) ==
  LET tableName == toLowerCase(stmt.tableName)
      pkCount == Cardinality({i \in 1..Len(stmt.columns) : "PRIMARY_KEY" \in stmt.columns[i].constraints})
      treeResult == BTreeCreate(db.pager)
      schema == [lname |-> tableName, name |-> stmt.tableName, columns |-> stmt.columns, rootPageNum |-> treeResult.root]
      tbls == MapSet(db.tables, schema)
      bts == MapSet(db.btrees, [lname |-> tableName, rootPageNum |-> treeResult.root])
      saveResult == saveSchema(treeResult.pager, tbls)
  IN  IF MapHas(db.tables, tableName)
        THEN Outcome(Res("create", FALSE, "already exists", tableName), db.pager, db.tables, db.btrees)
      ELSE IF ~treeResult.success
        THEN Outcome(Res("create", FALSE, treeResult.error, tableName), treeResult.pager, db.tables, db.btrees)
      ELSE IF pkCount > 1
        THEN Outcome(Res("create", FALSE, "Table can only have one PRIMARY KEY", tableName), treeResult.pager, db.tables, db.btrees)
      ELSE IF ~saveResult.success
        THEN Outcome(Res("create", FALSE, saveResult.error, tableName), saveResult.pager, tbls, bts)
      ELSE Outcome([Res("create", TRUE, "", tableName) EXCEPT !.message = createdMessage(stmt.tableName)],
                   saveResult.pager, tbls, bts)

executeCreate(db, stmt) ==
  LET tableName == toLowerCase(stmt.tableName)
      pkCount == Cardinality({i \in 1..Len(stmt.columns) : "PRIMARY_KEY" \in stmt.columns[i].constraints})
      treeResult == BTreeCreate(db.pager)
      schema == [lname |-> tableName, name |-> stmt.tableName, columns |-> stmt.columns, rootPageNum |-> treeResult.root]
      tbls == MapSet(db.tables, schema)
      bts == MapSet(db.btrees, [lname |-> tableName, rootPageNum |-> treeResult.root])
      saveResult == saveSchema(treeResult.pager, tbls)
  IN  IF MapHas(db.tables, tableName)
        THEN Outcome(Res("create", FALSE, "already exists", tableName), db.pager, db.tables, db.btrees)
      ELSE IF pkCount > 1
        THEN Outcome(Res("create", FALSE, "Table can only have one PRIMARY KEY", tableName), db.pager, db.tables, db.btrees)
      ELSE IF ~treeResult.success
        THEN Outcome(Res("create", FALSE, treeResult.error, tableName), treeResult.pager, db.tables, db.btrees)
      ELSE IF ~saveResult.success
        THEN Outcome(Res("create", FALSE, saveResult.error, tableName), saveResult.pager, tbls, bts)
      ELSE Outcome([Res("create", TRUE, "", tableName) EXCEPT !.message = createdMessage(stmt.tableName)],
                   saveResult.pager, tbls, bts)

convertValue(colDef, raw) ==
  IF colDef.type = "INTEGER"
    THEN IF raw.kind = "number" THEN [success |-> TRUE, value |-> raw]
         ELSE IF NumberOf(raw.str).nan \/ ~NumberOf(raw.str).integer
           THEN [success |-> FALSE, value |-> NullV]
           ELSE [success |-> TRUE, value |-> NumV(NumberOf(raw.str).value)]
    ELSE [success |-> TRUE, value |-> IF raw.kind = "number" THEN StrV(StringOf(raw.num)) ELSE raw]

\* the column index columnMap gives for a name (0 when the name is unknown);
\* a later column of the same lower-cased name overwrites an earlier one
columnIndex(schema, name) ==
  LET hits == {i \in 1..Len(schema.columns) : toLowerCase(schema.columns[i].name) = toLowerCase(name)}
  IN  IF hits = {} THEN 0 ELSE Max(hits)

RECURSIVE buildRowPositional(_, _, _)
buildRowPositional(schema, stmt, n) ==
  IF n = 0
    THEN [error |-> "", values |-> [i \in 1..Len(schema.columns) |-> NullV], keyValue |-> 0, hasKey |-> FALSE]
  ELSE LET before == buildRowPositional(schema, stmt, n - 1)
           colIdx == columnIndex(schema, stmt.columns[n])
           colDef == schema.columns[colIdx]
           converted == convertValue(colDef, stmt.values[n])
           isKey == "PRIMARY_KEY" \in colDef.constraints
       IN  IF before.error # "" THEN before
           ELSE IF colIdx = 0 THEN [before EXCEPT !.error = "Column does not exist"]
           ELSE IF ~converted.success THEN [before EXCEPT !.error = "Invalid INTEGER value"]
           ELSE IF isKey /\ converted.value.kind # "number"
             THEN [before EXCEPT !.error = "PRIMARY KEY column must be INTEGER",
                                 !.values[n] = converted.value]
           ELSE [before EXCEPT !.values[n] = converted.value,
                               !.keyValue = IF isKey THEN converted.value.num ELSE @,
                               !.hasKey = IF isKey THEN TRUE ELSE @]

\* the loop of executeInsert over the first n columns of the statement:
\* [error, values, keyValue, hasKey]
RECURSIVE buildRow(_, _, _)
buildRow(schema, stmt, n) ==
  IF n = 0
    THEN [error |-> "", values |-> [i \in 1..Len(schema.columns) |-> NullV], keyValue |-> 0, hasKey |-> FALSE]
  ELSE LET before == buildRow(schema, stmt, n - 1)
           colIdx == columnIndex(schema, stmt.columns[n])
           colDef == schema.columns[colIdx]
           converted == convertValue(colDef, stmt.values[n])
           isKey == "PRIMARY_KEY" \in colDef.constraints
       IN  IF before.error # "" THEN before
           ELSE IF colIdx = 0 THEN [before EXCEPT !.error = "Column does not exist"]
           ELSE IF ~converted.success THEN [before EXCEPT !.error = "Invalid INTEGER value"]
           ELSE IF isKey /\ converted.value.kind # "number"
             THEN [before EXCEPT !.error = "PRIMARY KEY column must be INTEGER",
                                 !.values[colIdx] = converted.value]
           ELSE [before EXCEPT !.values[colIdx] = converted.value,
                               !.keyValue = IF isKey THEN converted.value.num ELSE @,
                               !.hasKey = IF isKey THEN TRUE ELSE @]

insertRecordFromZero(db, stmt) ==
  LET tableName == toLowerCase(stmt.tableName)
      schema == MapGet(db.tables, tableName)
      row == buildRow(schema, stmt, Len(stmt.columns))
      scanResult == scan(db.pager, MapGet(db.btrees, tableName).rootPageNum)
  IN  [key |-> IF row.hasKey THEN row.keyValue
               ELSE IF Len(scanResult.data) > 0
                 THEN Max({scanResult.data[i].key : i \in 1..Len(scanResult.data)}) + 1
                 ELSE 0,
       values |-> row.values]

\* the record executeInsert hands to tree.insert: the row, under the PRIMARY KEY value
\* or, when no key value was taken from the statement, under max(key) + 1 (1 on an empty tree)
insertRecord(db, stmt) ==
  LET tableName == toLowerCase(stmt.tableName)
      schema == MapGet(db.tables, tableName)
      row == buildRow(schema, stmt, Len(stmt.columns))
      scanResult == scan(db.pager, MapGet(db.btrees, tableName).rootPageNum)
  IN  [key |-> IF row.hasKey THEN row.keyValue
               ELSE IF Len(scanResult.data) > 0
                 THEN Max({scanResult.data[i].key : i \in 1..Len(scanResult.data)}) + 1
                 ELSE 1,
       values |-> row.values]

\* the NOT NULL check of executeInsert over the finished row
violatesNotNullFirstOnly(schema, values) ==
  Len(schema.columns) > 0 /\ "NOT_NULL" \in schema.columns[1].constraints /\ values[1].kind = "null"
violatesNotNull(schema, values) ==
  \E i \in 1..Len(schema.columns) :
    "NOT_NULL" \in schema.columns[i].constraints /\ values[i].kind = "null"

\* the error executeInsert returns for a failure of tree.insert
insertErrorRaw(error) == error
insertError(error) ==
  IF error = "Duplicate key" THEN "Duplicate PRIMARY KEY value" ELSE error

executeInsertNoSave(db, stmt) ==
  LET tableName == toLowerCase(stmt.tableName)
      schema == MapGet(db.tables, tableName)
      tree == MapGet(db.btrees, tableName)
      row == buildRow(schema, stmt, Len(stmt.columns))
      scanResult == scan(db.pager, tree.rootPageNum)
      fail(error) == Outcome(Res("insert", FALSE, error, tableName), db.pager, db.tables, db.btrees)
      inserts(insertResult) ==
        LET rootChanged == schema.rootPageNum # insertResult.root
            tbls == IF rootChanged
                      THEN [db.tables EXCEPT ![MapIndex(db.tables, tableName)].rootPageNum = insertResult.root]
                      ELSE db.tables
            bts == [db.btrees EXCEPT ![MapIndex(db.btrees, tableName)].rootPageNum = insertResult.root]
            saved == insertResult.pager
        IN  IF ~insertResult.success
              THEN Outcome(Res("insert", FALSE,
                               insertError(insertResult.error),
                               tableName),
                           insertResult.pager, db.tables, bts)
              ELSE Outcome(Res("insert", TRUE, "", tableName), saved, tbls, bts)
  IN  IF ~MapHas(db.tables, tableName) THEN fail("Table does not exist")
      ELSE IF ~MapHas(db.btrees, tableName) THEN fail("B+Tree not found")
      ELSE IF Len(stmt.columns) # Len(stmt.values) THEN fail("Column count does not match value count")
      ELSE IF row.error # "" THEN fail(row.error)
      ELSE IF violatesNotNull(schema, row.values) THEN fail("cannot be null")
      ELSE IF ~row.hasKey /\ ~scanResult.success THEN fail(scanResult.error)
      ELSE inserts(insert(db.pager, tree.rootPageNum, insertRecord(db, stmt)))

executeInsertFirstTree(db, stmt) ==
  LET tableName == toLowerCase(stmt.tableName)
      schema == MapGet(db.tables, tableName)
      tree == db.btrees[1]
      row == buildRow(schema, stmt, Len(stmt.columns))
      scanResult == scan(db.pager, tree.rootPageNum)
      fail(error) == Outcome(Res("insert", FALSE, error, tableName), db.pager, db.tables, db.btrees)
      inserts(insertResult) ==
        LET rootChanged == schema.rootPageNum # insertResult.root
            tbls == IF rootChanged
                      THEN [db.tables EXCEPT ![MapIndex(db.tables, tableName)].rootPageNum = insertResult.root]
                      ELSE db.tables
            bts == [db.btrees EXCEPT ![MapIndex(db.btrees, tableName)].rootPageNum = insertResult.root]
            saved == IF rootChanged THEN saveSchema(insertResult.pager, tbls).pager ELSE insertResult.pager
        IN  IF ~insertResult.success
              THEN Outcome(Res("insert", FALSE,
                               insertError(insertResult.error),
                               tableName),
                           insertResult.pager, db.tables, bts)
              ELSE Outcome(Res("insert", TRUE, "", tableName), saved, tbls, bts)
  IN  IF ~MapHas(db.tables, tableName) THEN fail("Table does not exist")
      ELSE IF ~MapHas(db.btrees, tableName) THEN fail("B+Tree not found")
      ELSE IF Len(stmt.columns) # Len(stmt.values) THEN fail("Column count does not match value count")
      ELSE IF row.error # "" THEN fail(row.error)
      ELSE IF violatesNotNull(schema, row.values) THEN fail("cannot be null")
      ELSE IF ~row.hasKey /\ ~scanResult.success THEN fail(scanResult.error)
      ELSE inserts(insert(db.pager, tree.rootPageNum, insertRecord(db, stmt)))

executeInsert(db, stmt) ==
  LET tableName == toLowerCase(stmt.tableName)
      schema == MapGet(db.tables, tableName)
      tree == MapGet(db.btrees, tableName)
      row == buildRow(schema, stmt, Len(stmt.columns))
      scanResult == scan(db.pager, tree.rootPageNum)
      fail(error) == Outcome(Res("insert", FALSE, error, tableName), db.pager, db.tables, db.btrees)
      inserts(insertResult) ==
        LET rootChanged == schema.rootPageNum # insertResult.root
            tbls == IF rootChanged
                      THEN [db.tables EXCEPT ![MapIndex(db.tables, tableName)].rootPageNum = insertResult.root]
                      ELSE db.tables
            bts == [db.btrees EXCEPT ![MapIndex(db.btrees, tableName)].rootPageNum = insertResult.root]
            saved == IF rootChanged THEN saveSchema(insertResult.pager, tbls).pager ELSE insertResult.pager
        IN  IF ~insertResult.success
              THEN Outcome(Res("insert", FALSE,
                               insertError(insertResult.error),
                               tableName),
                           insertResult.pager, db.tables, bts)
              ELSE Outcome(Res("insert", TRUE, "", tableName), saved, tbls, bts)
  IN  IF ~MapHas(db.tables, tableName) THEN fail("Table does not exist")
      ELSE IF ~MapHas(db.btrees, tableName) THEN fail("B+Tree not found")
      ELSE IF Len(stmt.columns) # Len(stmt.values) THEN fail("Column count does not match value count")
      ELSE IF row.error # "" THEN fail(row.error)
      ELSE IF violatesNotNull(schema, row.values) THEN fail("cannot be null")
      ELSE IF ~row.hasKey /\ ~scanResult.success THEN fail(scanResult.error)
      ELSE inserts(insert(db.pager, tree.rootPageNum, insertRecord(db, stmt)))


\* a Record (object keyed by column name): pairs in property insertion order
ObjHas(obj, name) == \E i \in 1..Len(obj) : obj[i].name = name
ObjGet(obj, name) == obj[CHOOSE i \in 1..Len(obj) : obj[i].name = name].value
ObjSet(obj, name, value) ==
  IF ObjHas(obj, name)
    THEN [i \in 1..Len(obj) |-> IF obj[i].name = name THEN [name |-> name, value |-> value] ELSE obj[i]]
    ELSE Append(obj, [name |-> name, value |-> value])

\* the operands after the two coercions of matchesCondition
coerceRight(a, b) ==
  IF a.kind = "number" /\ b.kind = "string" /\ ~NumberOf(b.str).nan THEN NumV(NumberOf(b.str).value) ELSE b
coerceLeft(a, b) ==
  IF a.kind = "string" /\ b.kind = "number" /\ ~NumberOf(a.str).nan THEN NumV(NumberOf(a.str).value) ELSE a

\* a < b of JavaScript on numbers and strings (a mixed pair compares with NaN)
jsLess(a, b) ==
  IF a.kind = "number" /\ b.kind = "number" THEN a.num < b.num
  ELSE IF a.kind = "string" /\ b.kind = "string" THEN StringRank(a.str) < StringRank(b.str)
  ELSE FALSE
jsComparable(a, b) == a.kind = b.kind

matchesConditionNullAsValue(recordValue, operator, conditionValue) ==
  LET b == coerceRight(recordValue, conditionValue)
      a == coerceLeft(recordValue, conditionValue)
  IN  CASE operator = "=" -> a = b
        [] operator = "!=" -> a # b
        [] operator = ">" -> jsLess(b, a)
        [] operator = "<" -> jsLess(a, b)
        [] operator = ">=" -> jsComparable(a, b) /\ ~jsLess(a, b)
        [] operator = "<=" -> jsComparable(a, b) /\ ~jsLess(b, a)
        [] OTHER -> FALSE

matchesCondition(recordValue, operator, conditionValue) ==
  IF recordValue.kind = "null" THEN FALSE
  ELSE LET b == coerceRight(recordValue, conditionValue)
           a == coerceLeft(recordValue, conditionValue)
       IN  CASE operator = "=" -> a = b
             [] operator = "!=" -> a # b
             [] operator = ">" -> jsLess(b, a)
             [] operator = "<" -> jsLess(a, b)
             [] operator = ">=" -> jsComparable(a, b) /\ ~jsLess(a, b)
             [] operator = "<=" -> jsComparable(a, b) /\ ~jsLess(b, a)
             [] OTHER -> FALSE

findColumnExact(allColumnNames, col) ==
  LET hits == {i \in 1..Len(allColumnNames) : allColumnNames[i] = col}
  IN  IF hits = {} THEN 0 ELSE Min(hits)

\* allColumnNames.find(c => c.toLowerCase() === col.toLowerCase()): index of the first match, or 0
findColumn(allColumnNames, col) ==
  LET hits == {i \in 1..Len(allColumnNames) : toLowerCase(allColumnNames[i]) = toLowerCase(col)}
  IN  IF hits = {} THEN 0 ELSE Min(hits)

RECURSIVE toRecord(_, _, _)
toRecord(allColumnNames, values, n) ==
  IF n = 0 THEN <<>>
  ELSE ObjSet(toRecord(allColumnNames, values, n - 1), allColumnNames[n],
              IF n <= Len(values) THEN values[n] ELSE NullV)

RECURSIVE project(_, _, _)
project(record, selectedColumns, n) ==
  IF n = 0 THEN <<>>
  ELSE ObjSet(project(record, selectedColumns, n - 1), selectedColumns[n],
              IF ObjHas(record, selectedColumns[n]) THEN ObjGet(record, selectedColumns[n]) ELSE NullV)

RECURSIVE filterSeqAny(_, _, _, _)
filterSeqAny(records, allColumnNames, where, n) ==
  IF n = 0 THEN <<>>
  ELSE LET before == filterSeqAny(records, allColumnNames, where, n - 1)
           record == records[n]
           keep == \E w \in 1..Len(where) :
                     /\ findColumn(allColumnNames, where[w].column) # 0
                     /\ matchesCondition(ObjGet(record, allColumnNames[findColumn(allColumnNames, where[w].column)]),
                                         where[w].operator, where[w].value)
       IN  IF keep THEN Append(before, record) ELSE before

RECURSIVE filterSeq(_, _, _, _)
filterSeq(records, allColumnNames, where, n) ==
  IF n = 0 THEN <<>>
  ELSE LET before == filterSeq(records, allColumnNames, where, n - 1)
           record == records[n]
           keep == \A w \in 1..Len(where) :
                     /\ findColumn(allColumnNames, where[w].column) # 0
                     /\ matchesCondition(ObjGet(record, allColumnNames[findColumn(allColumnNames, where[w].column)]),
                                         where[w].operator, where[w].value)
       IN  IF keep THEN Append(before, record) ELSE before

\* parseWhereClause: the conditions object of the parser, keyed by the column name as
\* written; a later condition on the same name replaces the earlier one in its place
RECURSIVE parseWhereClause(_)
parseWhereClause(conds) ==
  IF Len(conds) = 0 THEN <<>>
  ELSE LET before == parseWhereClause(SubSeq(conds, 1, Len(conds) - 1))
           cond == conds[Len(conds)]
       IN  IF \E i \in 1..Len(before) : before[i].column = cond.column
             THEN [i \in 1..Len(before) |-> IF before[i].column = cond.column THEN cond ELSE before[i]]
             ELSE Append(before, cond)

executeSelect(db, stmt) ==
  LET tableName == toLowerCase(stmt.tableName)
      schema == MapGet(db.tables, tableName)
      tree == MapGet(db.btrees, tableName)
      scanResult == scan(db.pager, tree.rootPageNum)
      allColumnNames == [i \in 1..Len(schema.columns) |-> schema.columns[i].name]
      isSelectAll == Len(stmt.columns) = 1 /\ stmt.columns[1] = "*"
      selectedColumns ==
        IF isSelectAll THEN allColumnNames
        ELSE [i \in 1..Len(stmt.columns) |->
                IF findColumn(allColumnNames, stmt.columns[i]) # 0
                  THEN allColumnNames[findColumn(allColumnNames, stmt.columns[i])]
                  ELSE stmt.columns[i]]
      all == [i \in 1..Len(scanResult.data) |-> toRecord(allColumnNames, scanResult.data[i].values, Len(allColumnNames))]
      records == IF Len(stmt.where) > 0 THEN filterSeq(all, allColumnNames, stmt.where, Len(all)) ELSE all
      projectedRecords == [i \in 1..Len(records) |-> project(records[i], selectedColumns, Len(selectedColumns))]
      fail(error) == Res("select", FALSE, error, tableName)
  IN  IF ~MapHas(db.tables, tableName) THEN fail("Table does not exist")
      ELSE IF ~MapHas(db.btrees, tableName) THEN fail("B+Tree not found")
      ELSE IF ~scanResult.success THEN fail(scanResult.error)
      ELSE IF ~isSelectAll /\ \E i \in 1..Len(selectedColumns) : findColumn(allColumnNames, selectedColumns[i]) = 0
        THEN fail("Column does not exist")
      ELSE [Res("select", TRUE, "", tableName) EXCEPT !.columns = selectedColumns, !.records = projectedRecords]

\* ------------------------------------------------------------------
\* State machine of one BTree on a fresh pager (SpecTree)
\* ------------------------------------------------------------------
Pager == [file |-> file, header |-> header]


Keys == 0..MaxAscKey
InsertedKeys(lname) == {h.key : h \in {x \in inserted : x.lname = lname}}
\* the keys the environment offers next: any low key, or the next key of the ascending run
Offered(lname, key) ==
  \/ key <= MaxKey
  \/ key = Max(InsertedKeys(lname) \cup {MaxKey}) + 1
TreeRows(key) ==
  IF key <= VariedMaxKey
    THEN {<<NumV(key), StrV("a")>>, <<NullV, StrV("b")>>}
    ELSE {<<NumV(key), StrV("a")>>}

\* history of the successful inserts: the latest record per (tree, key)
Remember(hist, lname, record) ==
  {h \in hist : ~(h.lname = lname /\ h.key = record.key)}
    \cup {[lname |-> lname, key |-> record.key, values |-> record.values]}

\* Pager.open(new path); BTree.create(pager)
InitTree ==
  LET created == BTreeCreate(PagerOpenNew)
  IN  /\ file = created.pager.file
      /\ header = created.pager.header
      /\ tables = <<>>
      /\ btrees = <<[lname |-> "tree", rootPageNum |-> created.root]>>
      /\ opened = TRUE
      /\ result = NoResult
      /\ inserted = {}
      /\ maxLeafCells = DefaultMaxLeafCells
      /\ maxInternalKeys = DefaultMaxInternalKeys
      /\ pc = "idle"

\* tree.insert({ key, values })
TreeInsert(key, values) ==
  /\ opened
  /\ Offered("tree", key)
  /\ \E r \in {insert(Pager, btrees[1].rootPageNum, [key |-> key, values |-> values])} :
       /\ file' = r.pager.file
       /\ header' = r.pager.header
       /\ btrees' = [btrees EXCEPT ![1].rootPageNum = r.root]
       /\ result' = Res("insert", r.success, r.error, "tree")
       /\ inserted' = IF r.success
                        THEN Remember(inserted, "tree", [key |-> key, values |-> values])
                        ELSE inserted
  /\ UNCHANGED <<tables, opened, maxLeafCells, maxInternalKeys, pc>>

NextTree == \E key \in Keys : \E values \in TreeRows(key) : TreeInsert(key, values)

SpecTree == InitTree /\ [][NextTree]_vars

\* ------------------------------------------------------------------
\* State machine of the Database (Spec)
\* ------------------------------------------------------------------
\* PRIMARY KEY values offered by INSERT statements are 1..MaxPk
MaxPk == 3
\* INSERT into a table without PRIMARY KEY is offered while it holds fewer than MaxRows rows
MaxRows == 6
\* INSERT into a table with a PRIMARY KEY is offered while it holds fewer than MaxPkRows rows
MaxPkRows == 2
\* the first VariedRows rows of a table without PRIMARY KEY are offered with two different values
VariedRows == 1

Col(name, type, constraints) == [name |-> name, type |-> type, constraints |-> constraints]
UsersColumns == <<Col("id", "INTEGER", {"PRIMARY_KEY"}), Col("name", "TEXT", {"NOT_NULL"})>>

CreateStmts ==
  { [tableName |-> "users", columns |-> UsersColumns],
    [tableName |-> "USERS", columns |-> UsersColumns],
    [tableName |-> "posts", columns |-> <<Col("id", "INTEGER", {}), Col("title", "TEXT", {})>>],
    [tableName |-> "t", columns |-> <<Col("id", "INTEGER", {"PRIMARY_KEY"}), Col("name", "TEXT", {"PRIMARY_KEY"})>>] }

Ins(tableName, columns, values) == [tableName |-> tableName, columns |-> columns, values |-> values]
InsertStmts ==
  { Ins("users", <<"id", "name">>, <<NumV(k), StrV("a")>>) : k \in 1..MaxPk }
    \cup { Ins("USERS", <<"ID", "Name">>, <<StrV("2"), StrV("a")>>),
           Ins("users", <<"name">>, <<StrV("a")>>),
           Ins("users", <<"id">>, <<NumV(1)>>),
           Ins("users", <<"id", "age">>, <<NumV(1), NumV(2)>>),
           Ins("users", <<"id", "name">>, <<NumV(1)>>),
           Ins("users", <<"id", "name">>, <<StrV("abc"), StrV("a")>>),
           Ins("users", <<"id", "name">>, <<NumV(-1), StrV("a")>>),
           Ins("users", <<"id", "name">>, <<StrV("-1"), StrV("a")>>),
           Ins("nope", <<"id">>, <<NumV(1)>>) }
    \cup { Ins("posts", <<"id", "title">>, <<NumV(v), NumV(7)>>) : v \in 1..2 }

hasPrimaryKey(schema) == \E i \in 1..Len(schema.columns) : "PRIMARY_KEY" \in schema.columns[i].constraints

\* the INSERT statements the environment offers in the current state
Offers(db, stmt) ==
  LET lname == toLowerCase(stmt.tableName)
      rows == Len(scan(db.pager, MapGet(db.btrees, lname).rootPageNum).data)
  IN  MapHas(db.tables, lname) =>
        IF hasPrimaryKey(MapGet(db.tables, lname)) THEN rows < MaxPkRows
        ELSE /\ rows < MaxRows
             /\ (rows >= VariedRows /\ Len(stmt.values) > 0) => stmt.values[1] = NumV(1)

Sel(tableName, columns, where) == [tableName |-> tableName, columns |-> columns, where |-> where]
SelectStmts == { Sel("users", <<"*">>, <<>>), Sel("posts", <<"*">>, <<>>) }

Db == [pager |-> Pager, tables |-> tables, btrees |-> btrees]

\* the rows SELECT * returns for a table of db
selectAll(db, lname) == executeSelect(db, Sel(lname, <<"*">>, <<>>))

\* Database.open on a path that does not exist
Init ==
  LET pg == PagerOpenNew
      loadResult == loadSchema(pg)
  IN  /\ file = pg.file
      /\ header = pg.header
      /\ tables = loadResult.tables
      /\ btrees = loadResult.btrees
      /\ opened = TRUE
      /\ result = Res("open", loadResult.success, loadResult.error, "")
      /\ inserted = {}
      /\ maxLeafCells = DefaultMaxLeafCells
      /\ maxInternalKeys = DefaultMaxInternalKeys
      /\ pc = "idle"

Becomes(outcome) ==
  /\ file' = outcome.pager.file
  /\ header' = outcome.pager.header
  /\ tables' = outcome.tables
  /\ btrees' = outcome.btrees
  /\ result' = outcome.res

\* db.execute({ type: "CREATE_TABLE", ... })
ExecuteCreate(stmt) ==
  /\ opened
  /\ Becomes(executeCreate(Db, stmt))
  /\ UNCHANGED <<opened, inserted, maxLeafCells, maxInternalKeys, pc>>

\* db.execute({ type: "INSERT", ... })
ExecuteInsert(stmt) ==
  /\ opened
  /\ Offers(Db, stmt)
  /\ \E outcome \in {executeInsert(Db, stmt)} :
       /\ Becomes(outcome)
       /\ inserted' = IF outcome.res.success
                        THEN Remember(inserted, toLowerCase(stmt.tableName), insertRecord(Db, stmt))
                        ELSE inserted
  /\ UNCHANGED <<opened, maxLeafCells, maxInternalKeys, pc>>

\* db.execute({ type: "SELECT", ... })
ExecuteSelect(stmt) ==
  /\ opened
  /\ result' = executeSelect(Db, stmt)
  /\ UNCHANGED <<file, header, tables, btrees, opened, inserted, maxLeafCells, maxInternalKeys, pc>>

\* db.close()
Close ==
  /\ opened /\ pc = "idle"
  /\ file' = PagerClose(Pager).file
  /\ opened' = FALSE
  /\ result' = Res("close", TRUE, "", "")
  /\ UNCHANGED <<header, tables, btrees, inserted, maxLeafCells, maxInternalKeys, pc>>

\* Database.open on the path of the closed database
Open ==
  /\ ~opened
  /\ \E openResult \in {DatabaseOpen(file)} :
       /\ file' = openResult.pager.file
       /\ header' = openResult.pager.header
       /\ tables' = openResult.tables
       /\ btrees' = openResult.btrees
       /\ opened' = openResult.success
       /\ result' = Res("open", openResult.success, openResult.error, "")
  /\ UNCHANGED <<inserted, maxLeafCells, maxInternalKeys, pc>>

Next ==
  \/ \E stmt \in CreateStmts : ExecuteCreate(stmt)
  \/ \E stmt \in InsertStmts : ExecuteInsert(stmt)
  \/ \E stmt \in SelectStmts : ExecuteSelect(stmt)
  \/ Close
  \/ Open

Spec == Init /\ [][Next]_vars

\* ------------------------------------------------------------------
\* State machine of the Database under parsed SQL statements (SpecSql):
\* one table with a PRIMARY KEY, a nullable INTEGER and a NOT NULL TEXT column,
\* one table with a TEXT PRIMARY KEY, SELECT with projection and WHERE
\* ------------------------------------------------------------------
\* PRIMARY KEY values offered by the INSERT statements are 1..MaxSqlKey
MaxSqlKey == 3
\* values offered for the nullable INTEGER column are 1..MaxQty
MaxQty == 2
\* INSERT is offered while the table holds fewer than MaxSqlRows rows
MaxSqlRows == 3

ItemsColumns ==
  <<Col("id", "INTEGER", {"PRIMARY_KEY"}), Col("qty", "INTEGER", {}), Col("name", "TEXT", {"NOT_NULL"})>>

SqlCreateStmts ==
  { [tableName |-> "items", columns |-> ItemsColumns],
    [tableName |-> "ITEMS", columns |-> <<Col("id", "INTEGER", {})>>],
    [tableName |-> "tags", columns |-> <<Col("name", "TEXT", {"PRIMARY_KEY"})>>],
    [tableName |-> "t", columns |-> <<Col("id", "INTEGER", {"PRIMARY_KEY"}), Col("name", "TEXT", {"PRIMARY_KEY"})>>] }

SqlInsertStmts ==
  { Ins("items", <<"id", "qty", "name">>, <<NumV(k), NumV(q), StrV("a")>>) : k \in 1..MaxSqlKey, q \in 1..MaxQty }
    \cup { Ins("ITEMS", <<"Name", "ID">>, <<StrV("a"), NumV(k)>>) : k \in 1..MaxSqlKey }
    \cup { Ins("items", <<"qty", "id", "name">>, <<NumV(MaxQty), NumV(k), StrV("a")>>) : k \in 1..MaxSqlKey }
    \cup { Ins("items", <<"id", "qty">>, <<NumV(1), NumV(1)>>),
           Ins("items", <<"id", "age", "name">>, <<NumV(1), NumV(1), StrV("a")>>),
           Ins("items", <<"id", "qty", "name">>, <<NumV(1), NumV(1)>>),
           Ins("items", <<"id", "qty", "name">>, <<NumV(1), StrV("abc"), StrV("a")>>),
           Ins("tags", <<"name">>, <<StrV("a")>>),
           Ins("nope", <<"id">>, <<NumV(1)>>) }

Cond(column, operator, value) == [column |-> column, operator |-> operator, value |-> value]

SqlSelectStmts ==
  { Sel("items", <<"*">>, <<>>),
    Sel("ITEMS", <<"name", "ID">>, <<>>),
    Sel("items", <<"id", "nope">>, <<>>),
    Sel("nope", <<"*">>, <<>>),
    Sel("items", <<"*">>, parseWhereClause(<<Cond("qty", ">=", NumV(2))>>)),
    Sel("items", <<"id">>, parseWhereClause(<<Cond("id", ">", NumV(1)), Cond("QTY", "<=", NumV(1))>>)),
    Sel("items", <<"*">>, parseWhereClause(<<Cond("id", ">", NumV(1)), Cond("id", "<", NumV(3))>>)),
    Sel("items", <<"*">>, parseWhereClause(<<Cond("nope", "=", NumV(1))>>)) }

\* the INSERT statements the environment offers in the current state
SqlOffers(db, stmt) ==
  LET lname == toLowerCase(stmt.tableName)
  IN  MapHas(db.tables, lname) =>
        Len(scan(db.pager, MapGet(db.btrees, lname).rootPageNum).data) < MaxSqlRows

\* db.execute(parse("INSERT INTO ..."))
SqlInsert(stmt) ==
  /\ opened
  /\ SqlOffers(Db, stmt)
  /\ \E outcome \in {executeInsert(Db, stmt)} :
       /\ Becomes(outcome)
       /\ inserted' = IF outcome.res.success
                        THEN Remember(inserted, toLowerCase(stmt.tableName), insertRecord(Db, stmt))
                        ELSE inserted
  /\ UNCHANGED <<opened, maxLeafCells, maxInternalKeys, pc>>

NextSql ==
  \/ \E stmt \in SqlCreateStmts : ExecuteCreate(stmt)
  \/ \E stmt \in SqlInsertStmts : SqlInsert(stmt)
  \/ \E stmt \in SqlSelectStmts : ExecuteSelect(stmt)

SpecSql == Init /\ [][NextSql]_vars

\* ------------------------------------------------------------------
\* Reading the tree structure off the file (used by the properties)
\* ------------------------------------------------------------------
PageAt(n) == file[n + 1]
IsLeaf(n) == PageAt(n).type = PAGE_TYPE.LEAF_NODE
TreeRoot == btrees[1].rootPageNum

\* the child page numbers of an internal node, left to right
ChildrenOf(n) ==
  <<PageAt(n).leftmostChild>> \o [i \in 1..PageAt(n).keyCount |-> PageAt(n).entries[i].childPageNum]

LeafKeys(n) == [i \in 1..PageAt(n).cellCount |-> PageAt(n).cells[i].key]
LeafKeySet(n) == {PageAt(n).cells[i].key : i \in 1..PageAt(n).cellCount}

RECURSIVE NodesUnder(_)
NodesUnder(n) ==
  IF IsLeaf(n) THEN {n}
  ELSE {n} \cup UNION {NodesUnder(ChildrenOf(n)[i]) : i \in 1..Len(ChildrenOf(n))}

LeavesUnder(n) == {m \in NodesUnder(n) : IsLeaf(m)}
InternalsUnder(n) == {m \in NodesUnder(n) : ~IsLeaf(m)}
KeysUnder(n) == UNION {LeafKeySet(m) : m \in LeavesUnder(n)}

\* the depths at which the leaves under n sit (n itself is at depth d)
RECURSIVE LeafDepths(_, _)
LeafDepths(n, d) ==
  IF IsLeaf(n) THEN {d}
  ELSE UNION {LeafDepths(ChildrenOf(n)[i], d + 1) : i \in 1..Len(ChildrenOf(n))}

Height(root) == Max(LeafDepths(root, 1))

StrictlyIncreasing(seq) == \A i \in 1..(Len(seq) - 1) : seq[i] < seq[i + 1]

\* ------------------------------------------------------------------
\* C1: after any sequence of inserts, search(k) returns the record most
\* recently inserted with success under k for every inserted key k, and
\* the null result for every key that was never inserted.
\* ------------------------------------------------------------------
C1_SearchReturnsInserted ==
  \A k \in Keys :
    LET s == search(Pager, TreeRoot, k)
    IN  /\ s.success
        /\ s.found <=> k \in InsertedKeys("tree")
        /\ s.found => [lname |-> "tree", key |-> s.data.key, values |-> s.data.values] \in inserted
        /\ s.found => s.data.key = k

\* a key equal to a routing key of a tree of height 3 was inserted and is found
C1_Witness ==
  /\ Height(TreeRoot) = 3
  /\ \E k \in InsertedKeys("tree") :
       /\ \E i \in 1..PageAt(TreeRoot).keyCount : PageAt(TreeRoot).entries[i].key = k
       /\ search(Pager, TreeRoot, k).found

\* ------------------------------------------------------------------
\* C2: scan() returns exactly one record per inserted key and no others,
\* in strictly ascending key order, whatever the order of the inserts; on a
\* tree without inserts it succeeds with the empty sequence.
\* ------------------------------------------------------------------
C2_ScanSortedAndComplete ==
  LET sc == scan(Pager, TreeRoot)
  IN  /\ sc.success
      /\ Len(sc.data) = Cardinality(inserted)
      /\ StrictlyIncreasing([i \in 1..Len(sc.data) |-> sc.data[i].key])
      /\ {[lname |-> "tree", key |-> sc.data[i].key, values |-> sc.data[i].values] : i \in 1..Len(sc.data)} = inserted

\* a scan over at least four leaves, the last inserted key not being the largest
C2_Witness ==
  /\ Cardinality(LeavesUnder(TreeRoot)) >= 4
  /\ Len(scan(Pager, TreeRoot).data) >= 10
  /\ 0 \in LeafKeySet(findLeftmostLeaf(Pager, TreeRoot).data)

\* ------------------------------------------------------------------
\* C3: insert fails with the duplicate-key error exactly when the key is
\* already in the tree (in any leaf, at any height), and a failing insert
\* writes no page, allocates no page and leaves the root page number as it was.
\* ------------------------------------------------------------------
C3_DuplicateIffPresent ==
  \A k \in Keys : \A values \in TreeRows(k) :
    LET r == insert(Pager, TreeRoot, [key |-> k, values |-> values])
    IN  /\ (~r.success /\ r.error = "Duplicate key") <=> k \in InsertedKeys("tree")
        /\ ~r.success => r.pager = Pager /\ r.root = TreeRoot

\* the steps TreeInsert takes: a failure leaves file, header and root untouched
C3_FailedInsertWritesNothing ==
  [][(result'.op = "insert" /\ ~result'.success) =>
       (file' = file /\ header' = header /\ btrees' = btrees /\ result'.error = "Duplicate key")]_vars

C3_Duplicate == []C3_DuplicateIffPresent /\ C3_FailedInsertWritesNothing

\* a duplicate was just rejected in a tree of height 2 or more
C3_Witness ==
  /\ result.op = "insert" /\ ~result.success /\ result.error = "Duplicate key"
  /\ Height(TreeRoot) >= 2

\* ------------------------------------------------------------------
\* C4: in every leaf reachable from the root the keys are strictly
\* increasing; if its right sibling is a page R # 0, its largest key is less
\* than the smallest key of R; no key occurs in two leaves.
\* ------------------------------------------------------------------
C4_LeafOrder ==
  /\ \A n \in LeavesUnder(TreeRoot) :
       /\ StrictlyIncreasing(LeafKeys(n))
       /\ PageAt(n).rightSibling # 0 =>
            /\ PageAt(n).rightSibling < header.totalPages
            /\ IsLeaf(PageAt(n).rightSibling)
            /\ \A a \in LeafKeySet(n) : \A b \in LeafKeySet(PageAt(n).rightSibling) : a < b
            /\ LeafKeySet(n) # {} /\ LeafKeySet(PageAt(n).rightSibling) # {}
  /\ \A n, m \in LeavesUnder(TreeRoot) : n # m => LeafKeySet(n) \cap LeafKeySet(m) = {}

\* a chain of three leaves whose middle leaf was split off a leaf that already had a sibling
C4_Witness ==
  \E n \in LeavesUnder(TreeRoot) :
    /\ PageAt(n).rightSibling # 0
    /\ PageAt(PageAt(n).rightSibling).rightSibling # 0
    /\ PageAt(n).rightSibling > PageAt(PageAt(n).rightSibling).rightSibling

\* ------------------------------------------------------------------
\* C5: every internal node satisfies the routing invariant: its routing
\* keys are strictly increasing, the keys under the leftmost child are less
\* than the first routing key, the keys under the child paired with k_i are
\* >= k_i and less than the next routing key; that child is the one the
\* descent of search / insert selects.
\* ------------------------------------------------------------------
C5_Routing ==
  \A n \in InternalsUnder(TreeRoot) :
    LET page == PageAt(n)
        ks == [i \in 1..page.keyCount |-> page.entries[i].key]
    IN  /\ page.keyCount >= 1
        /\ StrictlyIncreasing(ks)
        /\ \A K \in KeysUnder(page.leftmostChild) : K < ks[1]
        /\ \A i \in 1..page.keyCount :
             \A K \in KeysUnder(page.entries[i].childPageNum) :
               /\ ks[i] <= K
               /\ i < page.keyCount => K < ks[i + 1]
        /\ \A i \in 1..Len(ChildrenOf(n)) :
             \A K \in KeysUnder(ChildrenOf(n)[i]) : findChildPage(page, K) = ChildrenOf(n)[i]

\* an internal node was split: the root of a tree of height 3 routes to two internal nodes
C5_Witness ==
  /\ Height(TreeRoot) = 3
  /\ \E n \in InternalsUnder(TreeRoot) : n # TreeRoot /\ PageAt(n).keyCount >= 3

\* ------------------------------------------------------------------
\* C6: the tree is balanced: every leaf reachable from the root is at the
\* same depth, also after cascading internal splits and root promotion.
\* ------------------------------------------------------------------
C6_Balanced == Cardinality(LeafDepths(TreeRoot, 1)) = 1

\* a leaf split below the root of a tree that already has height 3
C6_Witness ==
  /\ Height(TreeRoot) = 3
  /\ Cardinality(LeavesUnder(TreeRoot)) >= 7

\* ------------------------------------------------------------------
\* Properties of the Database (Spec)
\* ------------------------------------------------------------------
DbNext == [pager |-> [file |-> file', header |-> header'], tables |-> tables', btrees |-> btrees']
After(outcome) == [pager |-> outcome.pager, tables |-> outcome.tables, btrees |-> outcome.btrees]
TableNames == {"users", "posts", "t", "nope"}

CloseStep == opened /\ ~opened'
OpenStep == ~opened /\ opened'

RootOf(lname) == MapGet(btrees, lname).rootPageNum
scanOf(db, lname) == scan(db.pager, MapGet(db.btrees, lname).rootPageNum).data
primaryKeyIndex(schema) == CHOOSE i \in 1..Len(schema.columns) : "PRIMARY_KEY" \in schema.columns[i].constraints

\* ------------------------------------------------------------------
\* C7: closing the database and opening it again on the same path gives,
\* for every table, the same SELECT * result as before close (also when an
\* insert promoted a new root), and an INSERT after the reopen has the
\* outcome it would have had before the close and its row is visible.
\* ------------------------------------------------------------------
C7_ReopenPreservesTables ==
  [][(CloseStep \/ OpenStep) =>
       /\ \A l \in TableNames : selectAll(DbNext, l) = selectAll(Db, l)
       /\ OpenStep =>
            /\ result'.success
            /\ \A stmt \in InsertStmts :
                 LET before == executeInsert(Db, stmt)
                     after == executeInsert(DbNext, stmt)
                     lname == toLowerCase(stmt.tableName)
                 IN  /\ after.res = before.res
                     /\ \A l \in TableNames : selectAll(After(after), l) = selectAll(After(before), l)
                     /\ after.res.success =>
                          \E i \in 1..Len(scanOf(After(after), lname)) :
                            scanOf(After(after), lname)[i] = insertRecord(DbNext, stmt)]_vars

\* the database was reopened with two tables, one of them with a promoted root
C7_Witness ==
  /\ opened /\ result.op = "open" /\ result.success
  /\ Len(tables) = 2
  /\ \E i \in 1..Len(btrees) : PageAt(btrees[i].rootPageNum).type = PAGE_TYPE.INTERNAL_NODE

\* ------------------------------------------------------------------
\* C8: whenever an INSERT returns success, the root page number stored for
\* its table in the catalog page on disk equals the current root page number
\* of the table's B+Tree.
\* ------------------------------------------------------------------
C8_CatalogRootCurrent ==
  (opened /\ result.op = "insert" /\ result.success) =>
    LET catalog == PageAt(header.schemaPage)
        i == MapIndex(tables, result.table)
    IN  /\ catalog.tableCount = Len(tables)
        /\ toLowerCase(catalog.entries[i].name) = result.table
        /\ catalog.entries[i].rootPage = RootOf(result.table)
        /\ tables[i].rootPageNum = RootOf(result.table)

\* the insert that just returned promoted the root of its table
C8_Witness ==
  /\ opened /\ result.op = "insert" /\ result.success
  /\ PageAt(RootOf(result.table)).type = PAGE_TYPE.INTERNAL_NODE
  /\ Len(scanOf(Db, result.table)) = DefaultMaxLeafCells + 1

\* ------------------------------------------------------------------
\* C9: in a table that declares a PRIMARY KEY column, every stored row sits
\* under the tree key that equals the integer value of its PRIMARY KEY
\* column (so that value is never NULL).
\* ------------------------------------------------------------------
C9_KeyIsPrimaryKeyValue ==
  \A t \in 1..Len(tables) :
    hasPrimaryKey(tables[t]) =>
      \A i \in 1..Len(scanOf(Db, tables[t].lname)) :
        LET record == scanOf(Db, tables[t].lname)[i]
        IN  record.values[primaryKeyIndex(tables[t])] = NumV(record.key)

\* ------------------------------------------------------------------
\* C10: in a table without PRIMARY KEY column every successful INSERT
\* stores its row under max(key) + 1, or 1 on an empty tree: the n-th row has
\* key n, the rows are scanned in insertion order, also after close and reopen.
\* ------------------------------------------------------------------
C10_KeysAreOneToN ==
  \A t \in 1..Len(tables) :
    ~hasPrimaryKey(tables[t]) =>
      \A i \in 1..Len(scanOf(Db, tables[t].lname)) : scanOf(Db, tables[t].lname)[i].key = i

C10_InsertAppends ==
  [][/\ (result'.op = "insert" /\ result'.success /\ ~hasPrimaryKey(MapGet(tables, result'.table))) =>
          LET old == scanOf(Db, result'.table)
              new == scanOf(DbNext, result'.table)
              key == IF Len(old) = 0 THEN 1 ELSE Max({old[i].key : i \in 1..Len(old)}) + 1
          IN  /\ Len(new) = Len(old) + 1
              /\ SubSeq(new, 1, Len(old)) = old
              /\ new[Len(new)].key = key
              /\ [lname |-> result'.table, key |-> key, values |-> new[Len(new)].values] \in inserted'
              /\ [lname |-> result'.table, key |-> key, values |-> new[Len(new)].values] \notin inserted
     /\ (CloseStep \/ OpenStep) =>
          \A t \in 1..Len(tables) :
            ~hasPrimaryKey(tables[t]) => scanOf(DbNext, tables[t].lname) = scanOf(Db, tables[t].lname)]_vars

C10_AutoKey == []C10_KeysAreOneToN /\ C10_InsertAppends

\* six rows were inserted without key, the first two with different values, and the leaf was split
C10_Witness ==
  /\ opened /\ result.op = "insert" /\ result.success /\ result.table = "posts"
  /\ Len(scanOf(Db, "posts")) = 6
  /\ scanOf(Db, "posts")[1].values[1] = NumV(2)
  /\ scanOf(Db, "posts")[2].values[1] = NumV(1)

\* a statement that passes the checks executeInsert makes before the tree is touched:
\* as many values as columns, every column known and convertible, every NOT NULL column listed
WellFormed(schema, stmt) ==
  /\ Len(stmt.columns) = Len(stmt.values)
  /\ \A i \in 1..Len(stmt.columns) :
       /\ columnIndex(schema, stmt.columns[i]) # 0
       /\ convertValue(schema.columns[columnIndex(schema, stmt.columns[i])], stmt.values[i]).success
  /\ \A c \in 1..Len(schema.columns) :
       "NOT_NULL" \in schema.columns[c].constraints =>
         \E i \in 1..Len(stmt.columns) : columnIndex(schema, stmt.columns[i]) = c

\* the integer the statement gives for the PRIMARY KEY column (0 when it gives none)
statedKey(schema, stmt) ==
  LET at == {i \in 1..Len(stmt.columns) : columnIndex(schema, stmt.columns[i]) = primaryKeyIndex(schema)}
  IN  IF at = {} THEN 0 ELSE convertValue(schema.columns[primaryKeyIndex(schema)], stmt.values[Max(at)]).value.num

StatementErrors ==
  { "already exists", "Table can only have one PRIMARY KEY", "Table does not exist",
    "Column count does not match value count", "Column does not exist", "Invalid INTEGER value",
    "PRIMARY KEY column must be INTEGER", "cannot be null", "Duplicate PRIMARY KEY value" }

\* ------------------------------------------------------------------
\* C12: a CREATE TABLE or INSERT that fails (table exists, several PRIMARY
\* KEY columns, unknown table, column/value count mismatch, unknown column,
\* conversion failure, non-integer PRIMARY KEY value, NOT NULL violation,
\* duplicate key) changes no page, leaves totalPages and the catalog in
\* memory and on disk as they were, and every SELECT returns afterwards what
\* it returned before.
\* ------------------------------------------------------------------
C12_FailureChangesNothing ==
  /\ \A stmt \in SqlCreateStmts :
       LET outcome == executeCreate(Db, stmt)
       IN  ~outcome.res.success =>
             /\ outcome.res.error \in StatementErrors
             /\ After(outcome) = Db
             /\ \A sel \in SqlSelectStmts : executeSelect(After(outcome), sel) = executeSelect(Db, sel)
  /\ \A stmt \in SqlInsertStmts :
       LET outcome == executeInsert(Db, stmt)
       IN  ~outcome.res.success =>
             /\ outcome.res.error \in StatementErrors
             /\ After(outcome) = Db
             /\ \A sel \in SqlSelectStmts : executeSelect(After(outcome), sel) = executeSelect(Db, sel)
  /\ (result.op \in {"create", "insert"} /\ ~result.success) => result.error \in StatementErrors

\* an INSERT with a TEXT value for the PRIMARY KEY was just rejected while another table holds rows
C12_Witness ==
  /\ result = Res("insert", FALSE, "PRIMARY KEY column must be INTEGER", "tags")
  /\ Len(scanOf(Db, "tags")) = 0
  /\ header.totalPages = 4
  /\ MapHas(tables, "items") /\ Len(scanOf(Db, "items")) = 2

\* ------------------------------------------------------------------
\* C13: CREATE TABLE fails with the 'already exists' error whenever a table
\* of the same lower-cased name exists, created in this session or loaded
\* from the catalog on open; the table names of the catalog, in memory and
\* on disk, are pairwise distinct when lower-cased.
\* ------------------------------------------------------------------
C13_TableNamesDistinct ==
  /\ \A stmt \in CreateStmts :
       (\E i \in 1..Len(tables) : toLowerCase(tables[i].name) = toLowerCase(stmt.tableName)) =>
         executeCreate(Db, stmt).res = Res("create", FALSE, "already exists", toLowerCase(stmt.tableName))
  /\ \A i, j \in 1..Len(tables) :
       i # j => toLowerCase(tables[i].name) # toLowerCase(tables[j].name)
  /\ LET catalog == PageAt(header.schemaPage)
     IN  \A i, j \in 1..catalog.tableCount :
           i # j => toLowerCase(catalog.entries[i].name) # toLowerCase(catalog.entries[j].name)

\* the catalog just loaded on open holds a table spelled USERS next to a second table,
\* and CREATE TABLE users is rejected on the loaded tables
C13_Witness ==
  /\ opened /\ result = Res("open", TRUE, "", "")
  /\ Len(tables) = 2
  /\ \E i \in 1..Len(tables) : tables[i].name = "USERS"
  /\ \E stmt \in CreateStmts :
       /\ stmt.tableName = "users"
       /\ executeCreate(Db, stmt).res = Res("create", FALSE, "already exists", "users")

\* ------------------------------------------------------------------
\* C14: no row stored in any table has NULL in a column declared NOT NULL;
\* an INSERT that lists no value for a NOT NULL column is rejected with a
\* failure and stores nothing.
\* ------------------------------------------------------------------
C14_NotNullHolds ==
  /\ \A t \in 1..Len(tables) : \A c \in 1..Len(tables[t].columns) :
       "NOT_NULL" \in tables[t].columns[c].constraints =>
         \A i \in 1..Len(scanOf(Db, tables[t].lname)) :
           /\ Len(scanOf(Db, tables[t].lname)[i].values) >= c
           /\ scanOf(Db, tables[t].lname)[i].values[c] # NullV
  /\ \A stmt \in SqlInsertStmts :
       LET lname == toLowerCase(stmt.tableName)
           schema == MapGet(tables, lname)
           outcome == executeInsert(Db, stmt)
       IN  ( /\ MapHas(tables, lname)
             /\ \E c \in 1..Len(schema.columns) :
                  /\ "NOT_NULL" \in schema.columns[c].constraints
                  /\ \A i \in 1..Len(stmt.columns) :
                       toLowerCase(stmt.columns[i]) # toLowerCase(schema.columns[c].name) )
           => /\ ~outcome.res.success
              /\ After(outcome) = Db

\* an INSERT without a value for the NOT NULL column was just rejected, the table holding two rows
C14_Witness ==
  /\ result = Res("insert", FALSE, "cannot be null", "items")
  /\ Len(scanOf(Db, "items")) = 2
  /\ \E stmt \in SqlInsertStmts :
       /\ stmt.columns = <<"id", "qty">>
       /\ executeInsert(Db, stmt).res = result

\* ------------------------------------------------------------------
\* C15: a SELECT whose WHERE clause names a column the table does not have
\* (compared in lower case) returns a failure, whatever rows the table
\* holds, an empty table included.
\* ------------------------------------------------------------------
C15_UnknownWhereColumnRejected ==
  \A sel \in SqlSelectStmts :
    LET lname == toLowerCase(sel.tableName)
        schema == MapGet(tables, lname)
    IN  ( /\ MapHas(tables, lname)
          /\ \E w \in 1..Len(sel.where) : \A c \in 1..Len(schema.columns) :
               toLowerCase(schema.columns[c].name) # toLowerCase(sel.where[w].column) )
        => ~executeSelect(Db, sel).success

\* the operators of a WHERE condition, and the literals and column names the properties try
Operators == {"=", "!=", ">", "<", ">=", "<="}
WhereLiterals == {NumV(0), NumV(2), StrV("a"), StrV("")}
WhereColumns == {"id", "qty", "QTY"}

\* ------------------------------------------------------------------
\* C16: a row whose value in a column referenced by WHERE is NULL is never
\* in the result of the SELECT, for each of the operators =, !=, <, <=, >,
\* >= and every literal.
\* ------------------------------------------------------------------
C16_NullNeverMatches ==
  /\ \A op \in Operators : \A lit \in WhereLiterals : ~matchesCondition(NullV, op, lit)
  /\ MapHas(tables, "items") =>
       \A col \in WhereColumns : \A op \in Operators : \A lit \in WhereLiterals :
         LET res == executeSelect(Db, Sel("items", <<"*">>, parseWhereClause(<<Cond(col, op, lit)>>)))
         IN  /\ res.success
             /\ \A i \in 1..Len(res.records) : ObjGet(res.records[i], toLowerCase(col)) # NullV
  /\ (result.op = "select" /\ result.success /\ result.columns = <<"id", "qty", "name">>) =>
       \A sel \in SqlSelectStmts :
         executeSelect(Db, sel) = result =>
           \A w \in 1..Len(sel.where) : \A i \in 1..Len(result.records) :
             ObjHas(result.records[i], toLowerCase(sel.where[w].column)) =>
               ObjGet(result.records[i], toLowerCase(sel.where[w].column)) # NullV

\* SELECT * FROM items WHERE qty >= 2 just returned one row of a table that also
\* holds a row with NULL in qty
C16_Witness ==
  /\ result.op = "select" /\ result.success /\ Len(result.records) = 1
  /\ result = executeSelect(Db, Sel("items", <<"*">>, parseWhereClause(<<Cond("qty", ">=", NumV(2))>>)))
  /\ \E i \in 1..Len(scanOf(Db, "items")) : scanOf(Db, "items")[i].values[2] = NullV
  /\ Len(scanOf(Db, "items")) = 3

\* the meaning of an integer predicate on an integer value: numeric comparison, NULL never matching
NumericHolds(v, op, n) ==
  /\ v.kind = "number"
  /\ CASE op = "=" -> v.num = n
        [] op = "!=" -> v.num # n
        [] op = ">" -> v.num > n
        [] op = "<" -> v.num < n
        [] op = ">=" -> v.num >= n
        [] op = "<=" -> v.num <= n

\* the rows of a scan, in scan order, that satisfy every predicate of conds (columns by position in items)
RECURSIVE RowsHolding(_, _, _)
RowsHolding(rows, conds, n) ==
  IF n = 0 THEN <<>>
  ELSE LET before == RowsHolding(rows, conds, n - 1)
       IN  IF \A w \in 1..Len(conds) :
                NumericHolds(rows[n].values[columnIndex(MapGet(tables, "items"), conds[w].column)],
                             conds[w].operator, conds[w].value.num)
             THEN Append(before, rows[n]) ELSE before

\* WHERE clauses of two predicates on integer columns of items, each column name written once
IntegerLiterals == {1, 2}
WherePairs ==
  { <<Cond(cols[1], op1, NumV(n)), Cond(cols[2], op2, NumV(MaxQty))>> :
      cols \in {<<"id", "QTY">>, <<"ID", "id">>}, op1 \in Operators, op2 \in Operators,
      n \in IntegerLiterals }

ProjectionNames == {"id", "ID", "qty", "Name", "nope"}
ProjectionLists ==
  {<<a>> : a \in ProjectionNames} \cup {<<a, b>> : a \in ProjectionNames, b \in ProjectionNames}

\* the declared position of the column a name denotes (0 when no declared column has that name)
DeclaredAt(schema, name) ==
  IF \E i \in 1..Len(schema.columns) : toLowerCase(schema.columns[i].name) = toLowerCase(name)
    THEN CHOOSE i \in 1..Len(schema.columns) : toLowerCase(schema.columns[i].name) = toLowerCase(name)
    ELSE 0

\* ------------------------------------------------------------------
\* C18: SELECT * returns all declared columns in declared order; a named list
\* returns exactly the requested columns, matched case-insensitively, in the
\* order requested and under their declared spelling; the query fails when a
\* requested name matches no declared column.
\* ------------------------------------------------------------------
C18_Projection ==
  MapHas(tables, "items") =>
    LET schema == MapGet(tables, "items")
        rows == scanOf(Db, "items")
        declared == [i \in 1..Len(schema.columns) |-> schema.columns[i].name]
        star == selectAll(Db, "items")
        named(list, res) ==
          IF \E j \in 1..Len(list) : DeclaredAt(schema, list[j]) = 0
            THEN ~res.success /\ res.records = <<>>
            ELSE /\ res.success
                 /\ res.columns = [j \in 1..Len(list) |-> declared[DeclaredAt(schema, list[j])]]
                 /\ Len(res.records) = Len(rows)
                 /\ \A i \in 1..Len(rows) :
                      /\ \A j \in 1..Len(list) :
                           /\ ObjHas(res.records[i], declared[DeclaredAt(schema, list[j])])
                           /\ ObjGet(res.records[i], declared[DeclaredAt(schema, list[j])])
                                = rows[i].values[DeclaredAt(schema, list[j])]
                      /\ \A f \in 1..Len(res.records[i]) :
                           \E j \in 1..Len(list) :
                             res.records[i][f].name = declared[DeclaredAt(schema, list[j])]
                      /\ (Len(list) = 2 /\ DeclaredAt(schema, list[1]) # DeclaredAt(schema, list[2])) =>
                           /\ Len(res.records[i]) = 2
                           /\ res.records[i][1].name = declared[DeclaredAt(schema, list[1])]
    IN  /\ star.success
        /\ star.columns = declared
        /\ Len(star.records) = Len(rows)
        /\ \A i \in 1..Len(rows) :
             star.records[i] = [c \in 1..Len(declared) |-> [name |-> declared[c], value |-> rows[i].values[c]]]
        /\ \A list \in ProjectionLists : named(list, executeSelect(Db, Sel("ITEMS", list, <<>>)))

\* SELECT name, ID FROM ITEMS just returned two rows under the columns name, id
C18_Witness ==
  /\ result.op = "select" /\ result.success
  /\ result = executeSelect(Db, Sel("ITEMS", <<"name", "ID">>, <<>>))
  /\ result.columns = <<"name", "id">>
  /\ Len(result.records) = 2
  /\ result.records[1][1].name = "name" /\ result.records[1][2].name = "id"

\* the row a statement states for a table: at each declared position the value the
\* statement gives for that column, NULL where the statement names no such column
StatedRow(schema, stmt) ==
  [c \in 1..Len(schema.columns) |->
     IF \E n \in 1..Len(stmt.columns) : DeclaredAt(schema, stmt.columns[n]) = c
       THEN stmt.values[CHOOSE n \in 1..Len(stmt.columns) : DeclaredAt(schema, stmt.columns[n]) = c]
       ELSE NullV]

\* the rows of a scan whose key is not in a set of keys
NewRows(rows, keys) == {rows[i] : i \in {j \in 1..Len(rows) : rows[j].key \notin keys}}

\* ------------------------------------------------------------------
\* C19: every row stored by a successful INSERT has as many values as the
\* table has declared columns; each provided value sits at the declared
\* position of its column, resolved case-insensitively, and every column
\* the statement omits holds NULL.
\* ------------------------------------------------------------------
C19_RowShape ==
  /\ \A t \in 1..Len(tables) : \A i \in 1..Len(scanOf(Db, tables[t].lname)) :
       Len(scanOf(Db, tables[t].lname)[i].values) = Len(tables[t].columns)
  /\ \A stmt \in SqlInsertStmts :
       LET lname == toLowerCase(stmt.tableName)
           stored(outcome) ==
             LET rows == scanOf(Db, lname)
                 new == NewRows(scanOf(After(outcome), lname), {rows[i].key : i \in 1..Len(rows)})
             IN  /\ Len(scanOf(After(outcome), lname)) = Len(rows) + 1
                 /\ Cardinality(new) = 1
                 /\ \A row \in new : row.values = StatedRow(MapGet(tables, lname), stmt)
       IN  MapHas(tables, lname) =>
             \A outcome \in {executeInsert(Db, stmt)} : outcome.res.success => stored(outcome)

\* INSERT INTO ITEMS (Name, ID) VALUES ('a', 2) just stored the row (2, NULL, 'a') next to
\* a row stored by INSERT INTO items (qty, id, name)
C19_Witness ==
  /\ result = Res("insert", TRUE, "", "items")
  /\ Len(MapGet(tables, "items").columns) = 3
  /\ \E h \in inserted : h.lname = "items" /\ h.key = 2
  /\ \E i \in 1..Len(scanOf(Db, "items")) :
       /\ scanOf(Db, "items")[i].key = 2
       /\ scanOf(Db, "items")[i].values = <<NumV(2), NullV, StrV("a")>>
       /\ scanOf(Db, "items")[i].values = StatedRow(MapGet(tables, "items"), Ins("ITEMS", <<"Name", "ID">>, <<StrV("a"), NumV(2)>>))
  /\ \E i \in 1..Len(scanOf(Db, "items")) :
       scanOf(Db, "items")[i].values = <<NumV(1), NumV(MaxQty), StrV("a")>>

\* ------------------------------------------------------------------
\* State machine of one Pager on a fresh file (SpecPager): allocatePage,
\* writePage, readPage, close, and Pager.open on the closed file
\* ------------------------------------------------------------------
MaxPages == 5

\* the page buffers a caller writes: zeros, or a leaf page of no cells with a sibling number
DataPage(b) == [type |-> PAGE_TYPE.LEAF_NODE, cellCount |-> 0, rightSibling |-> b, cells |-> <<>>]
\* Buffer.alloc(100): a buffer that is not of the page size
ShortBuffer == [type |-> 0, length |-> 100]
WrittenPages == {ZeroPage, DataPage(0), DataPage(1), ShortBuffer}

\* the page numbers a caller passes: one below 0, and up to one past the last page
PageNumbers == -1..MaxPages

\* what a pager call returned: the page number or page buffer in records
PagerRes(op, success, error, data) == [Res(op, success, error, "") EXCEPT !.records = <<data>>]

\* Pager.open(new path)
InitPager ==
  /\ file = PagerOpenNew.file
  /\ header = PagerOpenNew.header
  /\ tables = <<>>
  /\ btrees = <<>>
  /\ opened = TRUE
  /\ result = Res("open", TRUE, "", "")
  /\ inserted = {}
  /\ maxLeafCells = DefaultMaxLeafCells
  /\ maxInternalKeys = DefaultMaxInternalKeys
  /\ pc = "idle"

\* pager.allocatePage()
PagerAllocate ==
  /\ opened /\ pc = "idle"
  /\ header.totalPages < MaxPages
  /\ \E r \in {allocatePage(Pager)} :
       /\ file' = r.pager.file
       /\ header' = r.pager.header
       /\ result' = PagerRes("allocate", r.success, r.error, r.data)
       /\ inserted' = Remember(inserted, "pager", [key |-> r.data, values |-> <<>>])
  /\ UNCHANGED <<tables, btrees, opened, maxLeafCells, maxInternalKeys, pc>>

\* pager.writePage(pageNum, data)
PagerWrite(pageNum, data) ==
  /\ opened /\ pc = "idle"
  /\ \E r \in {writePage(Pager, pageNum, data)} :
       /\ file' = r.pager.file
       /\ header' = r.pager.header
       /\ result' = PagerRes("write", r.success, r.error, pageNum)
  /\ UNCHANGED <<tables, btrees, opened, inserted, maxLeafCells, maxInternalKeys, pc>>

\* pager.readPage(pageNum)
PagerRead(pageNum) ==
  /\ opened /\ pc = "idle"
  /\ \E r \in {readPage(Pager, pageNum)} :
       result' = PagerRes("read", r.success, r.error, r.data)
  /\ UNCHANGED <<file, header, tables, btrees, opened, inserted, maxLeafCells, maxInternalKeys, pc>>

\* Pager.open on the path of the closed pager
PagerReopen ==
  /\ ~opened /\ pc = "idle"
  /\ \E r \in {PagerOpenExisting(file)} :
       /\ header' = IF r.success THEN r.pager.header ELSE header
       /\ opened' = r.success
       /\ result' = Res("open", r.success, r.error, "")
  /\ UNCHANGED <<file, tables, btrees, inserted, maxLeafCells, maxInternalKeys, pc>>

NextPager ==
  \/ PagerAllocate
  \/ \E pageNum \in PageNumbers : \E data \in WrittenPages : PagerWrite(pageNum, data)
  \/ \E pageNum \in PageNumbers : PagerRead(pageNum)
  \/ Close
  \/ PagerReopen

SpecPager == InitPager /\ [][NextPager]_vars

\* the page numbers the allocatePage calls have returned so far
Allocated == {h.key : h \in {x \in inserted : x.lname = "pager"}}

\* ------------------------------------------------------------------
\* C20: every allocatePage call returns the totalPages of before the call,
\* raises totalPages by exactly one and leaves the new page zero-filled;
\* the calls on a fresh file return 2, 3, 4, ... in turn, and totalPages
\* never decreases.
\* ------------------------------------------------------------------
C20_AllocatePage ==
  [][/\ result'.op = "allocate" =>
          /\ result'.success
          /\ result'.records = <<header.totalPages>>
          /\ header'.totalPages = header.totalPages + 1
          /\ Len(file') > header.totalPages
          /\ file'[header.totalPages + 1] = ZeroPage
          /\ readPage([file |-> file', header |-> header'], header.totalPages).data = ZeroPage
          /\ \A n \in 1..(header.totalPages - 1) : file'[n + 1] = file[n + 1]
          /\ Allocated' = Allocated \cup {Cardinality(Allocated) + 2}
     /\ header'.totalPages >= header.totalPages
     /\ Allocated' = 2..(header'.totalPages - 1)]_vars

\* the third allocatePage call just returned 4, after data was written to page 2 or 3
\* and the file was closed and opened again
C20_Witness ==
  /\ result.op = "allocate" /\ result.success
  /\ result.records[1] = 4
  /\ header.totalPages = 5
  /\ file[5] = ZeroPage
  /\ file[3] = DataPage(1) \/ file[4] = DataPage(1)

\* the header page 0 of the file holds
DiskHeader == pageAsHeader(file[1])

\* totalPages in memory, totalPages in page 0 and the pages present in the file are one number
PageCountsAgree ==
  /\ header.totalPages = DiskHeader.totalPages
  /\ DiskHeader.totalPages = Len(file)

\* the step is a writePage call that wrote page 0
WritesPageZero == result'.op = "write" /\ result'.success /\ result'.records = <<0>>

\* ------------------------------------------------------------------
\* C21 as stated: after every completed operation (open-create,
\* allocatePage, writePage, close) the totalPages in memory, the totalPages
\* in the header page on disk and the number of pages in the file are
\* equal, and after a reopen the header reports that count.
\* ------------------------------------------------------------------
C21_PageCountsAgree ==
  /\ PageCountsAgree
  /\ (result.op = "open" /\ result.success) => header.totalPages = Len(file)

\* ------------------------------------------------------------------
\* C21 as amended: the three counts are equal after open-create, after every
\* allocatePage and after every close; every other operation keeps them
\* equal unless it is a writePage of page 0, which replaces the header page
\* on disk; a reopen reports the count the pager had at close.
\* ------------------------------------------------------------------
C21_PageCountsAgreeUnlessPageZeroWritten ==
  /\ PageCountsAgree
  /\ [][/\ result'.op \in {"allocate", "close"} => PageCountsAgree'
        /\ (PageCountsAgree /\ ~WritesPageZero) => PageCountsAgree'
        /\ OpenStep => (PageCountsAgree /\ header'.totalPages = header.totalPages)]_vars

\* allocatePage just returned 3 and the counts agree at 4, page 2 holding data
\* that writePage wrote
C21_Witness ==
  /\ result.op = "allocate" /\ result.success /\ result.records[1] = 3
  /\ PageCountsAgree /\ Len(file) = 4
  /\ file[3] = DataPage(1)

\* ------------------------------------------------------------------
\* State machine of one Pager, one file write per step (SpecWrites): the
\* process may stop between any two writes, and Pager.open then runs on
\* the file as it was left
\* ------------------------------------------------------------------

\* Pager.open on a path that does not exist: openSync creates the file, new Pager(fd, header)
OpenCreate ==
  /\ pc = "absent"
  /\ file' = <<>>
  /\ header' = NewHeader
  /\ pc' = "open:header"
  /\ UNCHANGED <<tables, btrees, opened, result, inserted, maxLeafCells, maxInternalKeys>>

\* ... pager.writePageRaw(0, headerPage)
OpenWriteHeader ==
  /\ pc = "open:header"
  /\ file' = writePageRaw(file, 0, writeFileHeader(header))
  /\ pc' = "open:schema"
  /\ UNCHANGED <<header, tables, btrees, opened, result, inserted, maxLeafCells, maxInternalKeys>>

\* ... pager.writePageRaw(1, schemaPage); return the pager
OpenWriteSchema ==
  /\ pc = "open:schema"
  /\ file' = writePageRaw(file, 1, EmptySchemaPage)
  /\ pc' = "idle"
  /\ opened' = TRUE
  /\ result' = Res("open", TRUE, "", "")
  /\ UNCHANGED <<header, tables, btrees, inserted, maxLeafCells, maxInternalKeys>>

\* allocatePage: totalPages++ and this.writePageRaw(pageNum, emptyPage)
AllocateWritePage ==
  /\ opened /\ pc = "idle"
  /\ header.totalPages < MaxPages
  /\ header' = [header EXCEPT !.totalPages = header.totalPages + 1]
  /\ file' = writePageRaw(file, header.totalPages, ZeroPage)
  /\ pc' = "allocate:header"
  /\ UNCHANGED <<tables, btrees, opened, result, inserted, maxLeafCells, maxInternalKeys>>

\* ... this.flushHeader(); return pageNum
AllocateFlushHeader ==
  /\ pc = "allocate:header"
  /\ file' = flushHeader(Pager).file
  /\ pc' = "idle"
  /\ result' = PagerRes("allocate", TRUE, "", header.totalPages - 1)
  /\ inserted' = Remember(inserted, "pager", [key |-> header.totalPages - 1, values |-> <<>>])
  /\ UNCHANGED <<header, tables, btrees, opened, maxLeafCells, maxInternalKeys>>

\* the process stops: the Pager object is gone, the file stays as the writes so far left it
Crash ==
  /\ pc # "absent"
  /\ opened \/ pc # "idle"
  /\ opened' = FALSE
  /\ pc' = "idle"
  /\ result' = Res("crash", TRUE, "", "")
  /\ UNCHANGED <<file, header, tables, btrees, inserted, maxLeafCells, maxInternalKeys>>

\* Pager.open on the path of an existing file: a file shorter than a page reads as zeros
OpenExisting ==
  /\ ~opened /\ pc = "idle"
  /\ \E r \in {PagerOpenExisting(IF Len(file) = 0 THEN <<ZeroPage>> ELSE file)} :
       /\ header' = IF r.success THEN r.pager.header ELSE header
       /\ opened' = r.success
       /\ result' = Res("open", r.success, r.error, "")
  /\ UNCHANGED <<file, tables, btrees, inserted, maxLeafCells, maxInternalKeys, pc>>

InitWrites ==
  /\ file = <<>>
  /\ header = NewHeader
  /\ tables = <<>>
  /\ btrees = <<>>
  /\ opened = FALSE
  /\ result = NoResult
  /\ inserted = {}
  /\ maxLeafCells = DefaultMaxLeafCells
  /\ maxInternalKeys = DefaultMaxInternalKeys
  /\ pc = "absent"

NextWrites ==
  \/ OpenCreate
  \/ OpenWriteHeader
  \/ OpenWriteSchema
  \/ AllocateWritePage
  \/ AllocateFlushHeader
  \/ \E pageNum \in PageNumbers : \E data \in WrittenPages : PagerWrite(pageNum, data)
  \/ Close
  \/ Crash
  \/ OpenExisting

SpecWrites == InitWrites /\ [][NextWrites]_vars

\* the number of pages the file holds, and the totalPages its header page records
PagesPresent == Len(file)
DiskTotalPages == IF Len(file) = 0 THEN 0 ELSE pageAsHeader(file[1]).totalPages

\* ------------------------------------------------------------------
\* C22: at every point between two file writes of a Pager operation (the
\* creation of a new file in open, allocatePage, writePage, close) the
\* totalPages recorded in the header page on disk does not exceed the
\* number of pages present in the file, so that an open after a crash at
\* that point finds every page in [0, totalPages) present.
\* ------------------------------------------------------------------
C22_DiskHeaderNeverAhead ==
  /\ DiskTotalPages <= PagesPresent
  /\ (opened /\ pc = "idle" /\ result.op = "open") => header.totalPages <= PagesPresent

\* ------------------------------------------------------------------
\* C23: readPage(n) and writePage(n, buf) fail with the out-of-range error
\* for every n outside [0, totalPages); writePage of a page in range fails
\* with the size-mismatch error when the buffer is not of the page size; a
\* failing writePage changes no byte of the file and no header field.
\* ------------------------------------------------------------------
C23_RangeAndSizeChecked ==
  /\ [](\A n \in PageNumbers :
          IF n < 0 \/ n >= header.totalPages
            THEN /\ ~readPage(Pager, n).success
                 /\ readPage(Pager, n).error = "out of range"
                 /\ \A data \in WrittenPages :
                      /\ ~writePage(Pager, n, data).success
                      /\ writePage(Pager, n, data).error = "out of range"
                      /\ writePage(Pager, n, data).pager = Pager
            ELSE /\ readPage(Pager, n).success
                 /\ \A data \in WrittenPages :
                      IF bufferLength(Pager, data) # header.pageSize
                        THEN /\ ~writePage(Pager, n, data).success
                             /\ writePage(Pager, n, data).error = "Buffer size does not match page size"
                             /\ writePage(Pager, n, data).pager = Pager
                        ELSE writePage(Pager, n, data).success)
  /\ [][(result'.op = "write" /\ ~result'.success) =>
          /\ file' = file /\ header' = header
          /\ result'.error \in {"out of range", "Buffer size does not match page size"}
          /\ result'.error = "out of range"
               <=> (result'.records[1] < 0 \/ result'.records[1] >= header.totalPages)]_vars

\* writePage(2, Buffer.alloc(100)) just failed on a file of three pages and page 2 kept its data
C23_Witness ==
  /\ result.op = "write" /\ ~result.success
  /\ result.error = "Buffer size does not match page size"
  /\ result.records[1] = 2
  /\ header.totalPages = 3
  /\ file[3] = DataPage(1)

\* the step is a Pager.open on an existing file
OpensExisting == ~opened /\ pc = "idle" /\ result'.op = "open"

\* the magic the first four bytes of the file decode to (zeros when the file is shorter)
DiskMagic == IF Len(file) = 0 THEN 0 ELSE pageAsHeader(file[1]).magic

\* ------------------------------------------------------------------
\* C24: Pager.open on an existing file whose first four bytes do not decode
\* to the magic constant returns a failure and does not modify the file;
\* on a file with the right magic it succeeds with the pageSize, totalPages
\* and catalog page recorded in page 0.
\* ------------------------------------------------------------------
C24_OpenValidatesMagic ==
  [][OpensExisting =>
       /\ file' = file
       /\ IF DiskMagic # 1397836884
            THEN ~result'.success /\ ~opened' /\ result'.error = "Invalid magic number"
            ELSE /\ result'.success /\ opened'
                 /\ header'.magic = 1397836884
                 /\ header'.pageSize = file[1].pageSize
                 /\ header'.totalPages = file[1].totalPages
                 /\ header'.schemaPage = file[1].schemaPage]_vars

\* Pager.open just failed on a file of three pages whose page 0 holds a leaf page
C24_Witness ==
  /\ result = Res("open", FALSE, "Invalid magic number", "")
  /\ ~opened /\ pc = "idle"
  /\ Len(file) = 3
  /\ file[1] = DataPage(1)

\* ------------------------------------------------------------------
\* The header page as bytes (SpecHeader): writeFileHeader into a zeroed
\* page buffer, readFileHeader from it.  buf[i + 1] is the byte at offset i.
\* ------------------------------------------------------------------
HEADER_MAGIC_OFFSET == 0
HEADER_MAGIC_SIZE == 4
HEADER_PAGE_SIZE_OFFSET == 4
HEADER_PAGE_SIZE_SIZE == 2
HEADER_TOTAL_PAGES_OFFSET == 6
HEADER_TOTAL_PAGES_SIZE == 4
HEADER_SCHEMA_PAGE_OFFSET == 10
HEADER_SCHEMA_PAGE_SIZE == 4
FILE_HEADER_SIZE == 14

RECURSIVE Pow256(_)
Pow256(n) == IF n = 0 THEN 1 ELSE 256 * Pow256(n - 1)

\* Buffer.alloc(size, 0)
BufferAlloc(size) == [i \in 1..size |-> 0]

writeUIntBE(buf, value, offset, size) ==
  [i \in 1..Len(buf) |->
     IF i > offset /\ i <= offset + size
       THEN (value \div Pow256(offset + size - i)) % 256
       ELSE buf[i]]

\* buf.writeUInt16LE / buf.writeUInt32LE(value, offset): the low byte first
writeUIntLE(buf, value, offset, size) ==
  [i \in 1..Len(buf) |->
     IF i > offset /\ i <= offset + size
       THEN (value \div Pow256(i - offset - 1)) % 256
       ELSE buf[i]]

\* buf.readUInt16LE / buf.readUInt32LE(offset)
RECURSIVE readUIntLE(_, _, _)
readUIntLE(buf, offset, size) ==
  IF size = 0 THEN 0
  ELSE readUIntLE(buf, offset, size - 1) + buf[offset + size] * Pow256(size - 1)

\* writeFileHeader(buf, header), on bytes
writeFileHeaderBytes(buf, h) ==
  writeUIntLE(
    writeUIntLE(
      writeUIntLE(
        writeUIntLE(buf, h.magic, HEADER_MAGIC_OFFSET, HEADER_MAGIC_SIZE),
        h.pageSize, HEADER_PAGE_SIZE_OFFSET, HEADER_PAGE_SIZE_SIZE),
      h.totalPages, HEADER_TOTAL_PAGES_OFFSET, HEADER_TOTAL_PAGES_SIZE),
    h.schemaPage, HEADER_SCHEMA_PAGE_OFFSET, HEADER_SCHEMA_PAGE_SIZE)

\* readFileHeader(buf), on bytes
readFileHeaderBytes(buf) ==
  IF readUIntLE(buf, HEADER_MAGIC_OFFSET, HEADER_MAGIC_SIZE) # MAGIC_NUMBER
    THEN [success |-> FALSE, error |-> "Invalid magic number", data |-> NewHeader]
    ELSE [success |-> TRUE, error |-> "",
          data |-> [magic |-> readUIntLE(buf, HEADER_MAGIC_OFFSET, HEADER_MAGIC_SIZE),
                    pageSize |-> readUIntLE(buf, HEADER_PAGE_SIZE_OFFSET, HEADER_PAGE_SIZE_SIZE),
                    totalPages |-> readUIntLE(buf, HEADER_TOTAL_PAGES_OFFSET, HEADER_TOTAL_PAGES_SIZE),
                    schemaPage |-> readUIntLE(buf, HEADER_SCHEMA_PAGE_OFFSET, HEADER_SCHEMA_PAGE_SIZE)]]

\* the headers a pager may hold: page sizes of the tests, page counts and catalog pages
\* across the byte boundaries of a 32-bit field (up to 2^31 - 1)
PageSizes == {4096, 8192}
TotalPagesValues == {2, 3, 5, 255, 256, 257, 65536, 16777217, 2147483647}
SchemaPageValues == {1, 2, 258}

InitHeader ==
  /\ file = <<>>
  /\ header \in [magic : {MAGIC_NUMBER}, pageSize : PageSizes,
                  totalPages : TotalPagesValues, schemaPage : SchemaPageValues]
  /\ tables = <<>>
  /\ btrees = <<>>
  /\ opened = TRUE
  /\ result = NoResult
  /\ inserted = {}
  /\ maxLeafCells = DefaultMaxLeafCells
  /\ maxInternalKeys = DefaultMaxInternalKeys
  /\ pc = "idle"

\* flushHeader: headerPage = Buffer.alloc(pageSize, 0); writeFileHeader(headerPage, header);
\* writePageRaw(0, headerPage)
FlushHeaderBytes ==
  /\ opened /\ pc = "idle"
  /\ file' = <<writeFileHeaderBytes(BufferAlloc(header.pageSize), header)>>
  /\ pc' = "flushed"
  /\ result' = Res("flush", TRUE, "", "")
  /\ UNCHANGED <<header, tables, btrees, opened, inserted, maxLeafCells, maxInternalKeys>>

\* Pager.open on the file: readSync of page 0, readFileHeader(headerBuf)
ReadHeaderBytes ==
  /\ pc = "flushed"
  /\ \E r \in {readFileHeaderBytes(file[1])} :
       /\ header' = r.data
       /\ result' = Res("open", r.success, r.error, "")
  /\ pc' = "read"
  /\ UNCHANGED <<file, tables, btrees, opened, inserted, maxLeafCells, maxInternalKeys>>

NextHeader == FlushHeaderBytes \/ ReadHeaderBytes

SpecHeader == InitHeader /\ [][NextHeader]_vars

\* the number a run of bytes encodes when the first byte is the lowest
RECURSIVE LittleEndian(_)
LittleEndian(bytes) ==
  IF Len(bytes) = 0 THEN 0 ELSE bytes[1] + 256 * LittleEndian(Tail(bytes))

\* bytes [4..6), [6..10), [10..14) of the header page are the little-endian pageSize,
\* totalPages and catalog page, and every byte from 14 on is zero
FieldsAndPadding(buf) ==
  /\ Len(buf) = header.pageSize
  /\ \A i \in 1..Len(buf) : buf[i] \in 0..255
  /\ LittleEndian(SubSeq(buf, 5, 6)) = header.pageSize
  /\ LittleEndian(SubSeq(buf, 7, 10)) = header.totalPages
  /\ LittleEndian(SubSeq(buf, 11, 14)) = header.schemaPage
  /\ \A i \in 15..Len(buf) : buf[i] = 0

\* ------------------------------------------------------------------
\* C25 as stated: the serialized header page has bytes [0..4) equal to
\* 53 4C 51 54 in file order, then the little-endian pageSize, totalPages
\* and catalog page number, and all remaining bytes zero.
\* ------------------------------------------------------------------
C25_HeaderBytesAsStated ==
  pc = "flushed" =>
    /\ SubSeq(file[1], 1, 4) = <<83, 76, 81, 84>>
    /\ FieldsAndPadding(file[1])

\* ------------------------------------------------------------------
\* C25 as amended: the serialized header page has bytes [0..4) equal to
\* 54 4C 51 53 in file order (the little-endian bytes of 0x53514C54), then
\* the little-endian pageSize, totalPages and catalog page number, and all
\* remaining bytes zero; reading the page back gives the header written.
\* ------------------------------------------------------------------
C25_HeaderBytes ==
  /\ pc = "flushed" =>
       /\ SubSeq(file[1], 1, 4) = <<84, 76, 81, 83>>
       /\ FieldsAndPadding(file[1])
  /\ pc = "read" =>
       /\ result = Res("open", TRUE, "", "")
       /\ file[1] = writeFileHeaderBytes(BufferAlloc(header.pageSize), header)

\* the header page of a file of 16777217 pages of 8192 bytes, catalog page 258, was written
C25_Witness ==
  /\ pc = "flushed"
  /\ header.totalPages = 16777217 /\ header.pageSize = 8192 /\ header.schemaPage = 258
  /\ SubSeq(file[1], 1, 14) = <<84, 76, 81, 83, 0, 32, 1, 0, 0, 1, 2, 1, 0, 0>>
  /\ Len(file[1]) = 8192

\* ------------------------------------------------------------------
\* C26: every executor and B+Tree operation returns a success or a failure
\* value and never raises: whatever the table name, column list and
\* integer or string literal values of a parsed CREATE TABLE, INSERT or
\* SELECT statement, execute returns one of the two variants.
\* ------------------------------------------------------------------
C26_ExecuteNeverRaises ==
  result.op \in {"create", "insert", "select", "open"} =>
    /\ result.success \in BOOLEAN
    /\ result.error # RangeError

\* ------------------------------------------------------------------
\* C27: from an empty tree, up to maxLeafCells (4) distinct keys leave the
\* tree a single leaf that is still the root, with no page allocated; the
\* next insert of a new key makes exactly one leaf split and a new root
\* internal node: two pages allocated, the root page number changed, the
\* tree of height 2.
\* ------------------------------------------------------------------
C27_FirstSplit ==
  /\ [](((Cardinality(inserted) <= maxLeafCells) =>
              (/\ IsLeaf(TreeRoot)
               /\ TreeRoot = 2
               /\ header.totalPages = 3
               /\ LeafKeySet(TreeRoot) = InsertedKeys("tree")
               /\ PageAt(TreeRoot).cellCount = Cardinality(inserted)
               /\ PageAt(TreeRoot).rightSibling = 0))
         /\
         ((Cardinality(inserted) = maxLeafCells + 1) =>
              (/\ ~IsLeaf(TreeRoot)
               /\ Height(TreeRoot) = 2
               /\ header.totalPages = 5
               /\ PageAt(TreeRoot).keyCount = 1
               /\ Len(ChildrenOf(TreeRoot)) = 2
               /\ ChildrenOf(TreeRoot)[1] = 2
               /\ {TreeRoot, ChildrenOf(TreeRoot)[2]} = {3, 4}
               /\ IsLeaf(ChildrenOf(TreeRoot)[1])
               /\ IsLeaf(ChildrenOf(TreeRoot)[2]))))
  /\ [][((Cardinality(inserted') <= maxLeafCells) =>
               (header'.totalPages = header.totalPages /\ btrees' = btrees))
        /\
        ((Cardinality(inserted) = maxLeafCells /\ Cardinality(inserted') = maxLeafCells + 1) =>
               (/\ header'.totalPages = header.totalPages + 2
                /\ btrees'[1].rootPageNum # btrees[1].rootPageNum))]_vars

\* the fifth distinct key was just inserted, a key below the four before it
C27_Witness ==
  /\ result = Res("insert", TRUE, "", "tree")
  /\ Cardinality(inserted) = maxLeafCells + 1
  /\ ~IsLeaf(TreeRoot) /\ Height(TreeRoot) = 2
  /\ InsertedKeys("tree") = {0, 1, 2, 3, 4}

\* ------------------------------------------------------------------
\* C28: each successful CREATE TABLE allocates exactly one page
\* (totalPages + 1, from 2 to 3 on a fresh database); that page is an empty
\* leaf (cell count 0, right sibling 0) and is the root page the catalog
\* records for the new table; every other data page is left as it was; the
\* result carries the message Table '<name>' created with the name as the
\* statement spelled it.
\* ------------------------------------------------------------------
CreateSucceeds == result'.op = "create" /\ result'.success

\* the catalog entry of a table, read back from the catalog page of the file
CatalogEntry(f, h, lname) == MapGet(loadSchema([file |-> f, header |-> h]).tables, lname)

C28_CreateAllocatesOnePage ==
  [][CreateSucceeds =>
       (/\ header'.totalPages = header.totalPages + 1
        /\ Len(file') = Len(file) + 1
        /\ (Len(tables) = 0 => (header.totalPages = 2 /\ header'.totalPages = 3))
        /\ file'[header.totalPages + 1] = LeafPage(0, <<>>)
        /\ file'[header.totalPages + 1].cellCount = 0
        /\ file'[header.totalPages + 1].rightSibling = 0
        /\ \A i \in 3..Len(file) : file'[i] = file[i]
        /\ pageAsHeader(file'[1]).totalPages = header'.totalPages
        /\ ~MapHas(tables, result'.table)
        /\ Len(tables') = Len(tables) + 1
        /\ MapHas(tables', result'.table)
        /\ MapGet(tables', result'.table).rootPageNum = header.totalPages
        /\ MapGet(btrees', result'.table).rootPageNum = header.totalPages
        /\ CatalogEntry(file', header', result'.table).rootPageNum = header.totalPages
        /\ CatalogEntry(file', header', result'.table).name = MapGet(tables', result'.table).name
        /\ result'.message = createdMessage(MapGet(tables', result'.table).name)
        /\ \E stmt \in CreateStmts :
              /\ toLowerCase(stmt.tableName) = result'.table
              /\ result'.message = <<"Table '", stmt.tableName, "' created">>)]_vars

\* CREATE TABLE USERS succeeded as the second table: page 3 is its empty root
C28_Witness ==
  /\ result.op = "create" /\ result.success
  /\ result.message = <<"Table '", "USERS", "' created">>
  /\ Len(tables) = 2
  /\ header.totalPages = 4
  /\ MapGet(tables, "users").rootPageNum = 3
  /\ file[4] = LeafPage(0, <<>>)

\* ------------------------------------------------------------------
\* C29: closing a database and opening it again, with no mutating
\* statement between, leaves every page of the file equal and the header
\* fields unchanged; a file in which no table was created has pageSize
\* 4096, totalPages 2 and catalog page 1, before and after.
\* ------------------------------------------------------------------
ReopenStep == ~opened /\ result'.op = "open"

C29_ReopenIsNoOp ==
  /\ [](Len(tables) = 0 =>
          (/\ file = PagerOpenNew.file
           /\ header = NewHeader
           /\ header.pageSize = 4096 /\ header.totalPages = 2 /\ header.schemaPage = 1))
  /\ [][(CloseStep \/ ReopenStep) =>
          (/\ file' = file
           /\ header' = header
           /\ pageAsHeader(file'[1]) = header
           /\ tables' = tables
           /\ btrees' = btrees)]_vars
  /\ [][ReopenStep => (result'.success /\ opened')]_vars

\* a database holding one table was closed and opened again
C29_Witness ==
  /\ opened
  /\ result = Res("open", TRUE, "", "")
  /\ Len(tables) = 1
  /\ header.totalPages = 3
  /\ pageAsHeader(file[1]) = header

\* ------------------------------------------------------------------
\* C30: when an insert makes a leaf hold n = maxLeafCells + 1 cells, the
\* first ceil(n/2) cells in key order stay in the original page and the
\* others move to one newly allocated page; the promoted key is the first
\* key of the new right leaf and is still stored there. Keys 1..5 give the
\* left leaf 1,2,3, the right leaf 4,5 and the promoted key 4.
\* ------------------------------------------------------------------
RECURSIVE KeysInOrder(_)
KeysInOrder(S) == IF S = {} THEN <<>> ELSE <<Min(S)>> \o KeysInOrder(S \ {Min(S)})

\* the keys of the cells of a leaf page buffer, in stored order
CellKeys(page) == [i \in 1..page.cellCount |-> page.cells[i].key]

\* the routing keys held by the internal nodes of a file
RoutingKeysOf(f) ==
  UNION {{f[i].entries[j].key : j \in 1..f[i].keyCount} :
           i \in {x \in 3..Len(f) : f[x].type = PAGE_TYPE.INTERNAL_NODE}}

\* this step inserts the new key k into the full leaf p
LeafSplitsAt(p, k) ==
  /\ k \notin InsertedKeys("tree")
  /\ k \in {h.key : h \in inserted'}
  /\ findLeafPage(Pager, TreeRoot, k, <<>>).data = p
  /\ PageAt(p).cellCount = maxLeafCells

SplitAsStated(p, k) ==
  LET merged == KeysInOrder(LeafKeySet(p) \cup {k})
      n == Len(merged)
      half == (n + 1) \div 2
      q == header.totalPages
  IN  /\ n = maxLeafCells + 1
      /\ q >= Len(file)
      /\ CellKeys(file'[p + 1]) = SubSeq(merged, 1, half)
      /\ file'[q + 1].type = PAGE_TYPE.LEAF_NODE
      /\ CellKeys(file'[q + 1]) = SubSeq(merged, half + 1, n)
      /\ \A m \in 2..(Len(file) - 1) : (m # p /\ IsLeaf(m)) => file'[m + 1] = file[m + 1]
      /\ \A m \in Len(file)..(Len(file') - 1) : m # q => file'[m + 1].type = PAGE_TYPE.INTERNAL_NODE
      /\ merged[half + 1] \notin RoutingKeysOf(file)
      /\ RoutingKeysOf(file') = RoutingKeysOf(file) \cup {merged[half + 1]}
      /\ file'[q + 1].cells[1].key = merged[half + 1]

C30_LeafSplit ==
  /\ [](InsertedKeys("tree") = 1..5 =>
          (/\ ~IsLeaf(TreeRoot)
           /\ PageAt(TreeRoot).keyCount = 1
           /\ PageAt(TreeRoot).leftmostChild = 2
           /\ LeafKeys(2) = <<1, 2, 3>>
           /\ PageAt(TreeRoot).entries[1].key = 4
           /\ LeafKeys(PageAt(TreeRoot).entries[1].childPageNum) = <<4, 5>>))
  /\ [][\A k \in Keys : \A p \in 2..(Len(file) - 1) :
          LeafSplitsAt(p, k) => SplitAsStated(p, k)]_vars

\* keys 1..5 are in the tree, split 1,2,3 | 4,5 under the routing key 4
C30_Witness ==
  /\ result = Res("insert", TRUE, "", "tree")
  /\ InsertedKeys("tree") = 1..5
  /\ LeafKeys(2) = <<1, 2, 3>>
  /\ PageAt(TreeRoot).entries[1].key = 4

\* ------------------------------------------------------------------
\* C31: when an internal node holds n = maxInternalKeys + 1 entries, its
\* split promotes the key at index floor(n/2); the entries before it stay
\* in the original node under the original leftmost child, the entries
\* after it go to a newly allocated node whose leftmost child is the
\* promoted entry's child, the promoted key is in neither node, and the
\* child pointers of the two nodes are those of the node before the split.
\* ------------------------------------------------------------------
InternalPages == {m \in 2..(Len(file) - 1) : PageAt(m).type = PAGE_TYPE.INTERNAL_NODE}
EntryKeys(page) == {page.entries[i].key : i \in 1..page.keyCount}
ChildSeq(page) == <<page.leftmostChild>> \o [i \in 1..page.keyCount |-> page.entries[i].childPageNum]

\* propagateSplit on the full node m: the child page was allocated below, the
\* entry (k, child) is spliced in and written back, then the node is split
Overfull(m, k) ==
  LET below == allocatePage(Pager)
      page == PageAt(m)
      old == readInternalEntries(page)
      insertPos == sortedInsertPos([i \in 1..Len(old) |-> old[i].key], k)
      entries == Splice(old, insertPos, [key |-> k, childPageNum |-> below.data])
  IN  [entries |-> entries,
       leftmostChild |-> page.leftmostChild,
       pager |-> writePage(below.pager, m, writeInternalNode(page.leftmostChild, entries)).pager]

InternalSplitAsStated(m, k) ==
  \E o \in {Overfull(m, k)} : \E r \in {splitInternalNode(o.pager, m)} :
    LET n == Len(o.entries)
        at == n \div 2
        left == r.pager.file[m + 1]
        right == r.pager.file[r.newPageNum + 1]
    IN  /\ n = maxInternalKeys + 1
        /\ r.success
        /\ r.promotedKey = o.entries[at + 1].key
        /\ r.newPageNum = o.pager.header.totalPages
        /\ r.pager.header.totalPages = o.pager.header.totalPages + 1
        /\ left = writeInternalNode(o.leftmostChild, SubSeq(o.entries, 1, at))
        /\ right = writeInternalNode(o.entries[at + 1].childPageNum, SubSeq(o.entries, at + 2, n))
        /\ r.promotedKey \notin EntryKeys(left) \cup EntryKeys(right)
        /\ ChildSeq(left) \o ChildSeq(right) = <<o.leftmostChild>> \o [i \in 1..n |-> o.entries[i].childPageNum]
        /\ \A x \in 2..Len(o.pager.file) : (x # m + 1) => r.pager.file[x] = o.pager.file[x]

\* the step on which the root, an internal node, splits: the tree grows from height 2 to 3
RootInternalSplit ==
  LET p == TreeRoot
      rootAfter == file'[btrees'[1].rootPageNum + 1]
      merged == KeysInOrder(RoutingKeysOf(file'))
      n == Len(merged)
      at == n \div 2
      right == file'[rootAfter.entries[1].childPageNum + 1]
  IN  (Height(p) = 2 /\ btrees'[1].rootPageNum # p) =>
        (/\ n = maxInternalKeys + 1
         /\ rootAfter.keyCount = 1
         /\ rootAfter.leftmostChild = p
         /\ rootAfter.entries[1].key = merged[at + 1]
         /\ file'[p + 1].leftmostChild = PageAt(p).leftmostChild
         /\ [i \in 1..file'[p + 1].keyCount |-> file'[p + 1].entries[i].key] = SubSeq(merged, 1, at)
         /\ [i \in 1..right.keyCount |-> right.entries[i].key] = SubSeq(merged, at + 2, n)
         /\ right.type = PAGE_TYPE.INTERNAL_NODE
         /\ rootAfter.entries[1].childPageNum >= Len(file)
         /\ Len(ChildSeq(file'[p + 1]) \o ChildSeq(right)) = n + 1
         /\ {(ChildSeq(file'[p + 1]) \o ChildSeq(right))[i] : i \in 1..(n + 1)}
              = {x \in 2..(Len(file') - 1) : file'[x + 1].type = PAGE_TYPE.LEAF_NODE})

C31_InternalSplit ==
  /\ [](\A m \in InternalPages : PageAt(m).keyCount = maxInternalKeys =>
           \A k \in Keys \ EntryKeys(PageAt(m)) : InternalSplitAsStated(m, k))
  /\ [][RootInternalSplit]_vars

\* the root internal node has just split: a root with one key over two internal nodes of two keys
C31_Witness ==
  /\ Height(TreeRoot) = 3
  /\ PageAt(TreeRoot).keyCount = 1
  /\ PageAt(PageAt(TreeRoot).leftmostChild).keyCount = maxInternalKeys \div 2
  /\ PageAt(PageAt(TreeRoot).entries[1].childPageNum).keyCount = maxInternalKeys \div 2
  /\ PageAt(TreeRoot).entries[1].key \notin
       EntryKeys(PageAt(PageAt(TreeRoot).leftmostChild)) \cup EntryKeys(PageAt(PageAt(TreeRoot).entries[1].childPageNum))

\* ------------------------------------------------------------------
\* C32: the root page number of a tree changes only on an insert in which
\* the root node itself split; the new root is then a freshly allocated
\* internal node whose leftmost child is the old root and whose single
\* entry is (promoted key, new right sibling of the old root). The root
\* page number rises at each change and the height grows by exactly one.
\* ------------------------------------------------------------------
RootSplit ==
  LET old == TreeRoot
      new == btrees'[1].rootPageNum
      newRoot == file'[new + 1]
      sibling == newRoot.entries[1].childPageNum
  IN  /\ result'.op = "insert" /\ result'.success
      /\ new > old
      /\ new >= Len(file)
      /\ newRoot.type = PAGE_TYPE.INTERNAL_NODE
      /\ newRoot.keyCount = 1
      /\ newRoot.leftmostChild = old
      /\ sibling >= Len(file) /\ sibling # new
      /\ file'[sibling + 1].type = PageAt(old).type
      /\ IF IsLeaf(old)
            THEN /\ PageAt(old).cellCount = maxLeafCells
                 /\ file'[old + 1].cellCount < PageAt(old).cellCount
                 /\ file'[old + 1].rightSibling = sibling
                 /\ newRoot.entries[1].key = file'[sibling + 1].cells[1].key
            ELSE /\ PageAt(old).keyCount = maxInternalKeys
                 /\ file'[old + 1].keyCount < PageAt(old).keyCount
                 /\ file'[old + 1].leftmostChild = PageAt(old).leftmostChild
                 /\ newRoot.entries[1].key \notin EntryKeys(file'[old + 1]) \cup EntryKeys(file'[sibling + 1])
                 /\ \A k \in EntryKeys(file'[old + 1]) : k < newRoot.entries[1].key
                 /\ \A k \in EntryKeys(file'[sibling + 1]) : k > newRoot.entries[1].key
      /\ Height(TreeRoot)' = Height(TreeRoot) + 1

C32_RootChangesOnRootSplit ==
  [][IF btrees'[1].rootPageNum # TreeRoot
       THEN RootSplit
       ELSE Height(TreeRoot)' = Height(TreeRoot)]_vars

\* the root changed twice: page 2, then the root over two leaves, now the root over two internal nodes
C32_Witness ==
  /\ Height(TreeRoot) = 3
  /\ PageAt(TreeRoot).keyCount = 1
  /\ ~IsLeaf(PageAt(TreeRoot).leftmostChild)
  /\ PageAt(TreeRoot).leftmostChild > 2
  /\ TreeRoot > PageAt(TreeRoot).leftmostChild
  /\ result = Res("insert", TRUE, "", "tree")

\* ------------------------------------------------------------------
\* C33: the right-sibling pointer of a leaf changes only when that leaf
\* splits: leaf L with pointer S splits into L and the new page R with
\* L.rightSibling = R and R.rightSibling = S; an insert leaves the pointer
\* of every other leaf as it was; every non-zero pointer refers to a leaf
\* of the same tree whose keys are all greater.
\* ------------------------------------------------------------------
LeafPages == {m \in 2..(Len(file) - 1) : IsLeaf(m)}

SiblingsPointRight ==
  \A L \in LeavesUnder(TreeRoot) :
    PageAt(L).rightSibling # 0 =>
      /\ PageAt(L).rightSibling \in LeavesUnder(TreeRoot)
      /\ \A a \in LeafKeySet(L) : \A b \in LeafKeySet(PageAt(L).rightSibling) : a < b

Relinked(L) ==
  LET R == header.totalPages
  IN  /\ R >= Len(file)
      /\ file'[R + 1].type = PAGE_TYPE.LEAF_NODE
      /\ file'[L + 1].rightSibling = R
      /\ file'[R + 1].rightSibling = PageAt(L).rightSibling

\* the key this step adds to the tree (none when the insert fails)
NewKeys == {h.key : h \in inserted'} \ InsertedKeys("tree")
\* the leaf the descent of insert ends at for key k
TargetLeaf(k) == findLeafPage(Pager, TreeRoot, k, <<>>).data

\* the leaf that splits on this step: the full leaf the new key goes to
SplittingLeaves == {L \in {TargetLeaf(k) : k \in NewKeys} : PageAt(L).cellCount = maxLeafCells}

SiblingChangesOnlyOnSplit ==
  \E splitting \in {SplittingLeaves} :
    \A L \in LeafPages :
      /\ file'[L + 1].rightSibling # PageAt(L).rightSibling => L \in splitting
      /\ L \in splitting =>
            (/\ Relinked(L)
             /\ \A M \in LeafPages \ {L} : file'[M + 1].rightSibling = PageAt(M).rightSibling)

C33_SiblingPointers ==
  /\ [](SiblingsPointRight /\ LeafPages = LeavesUnder(TreeRoot))
  /\ [][SiblingChangesOnlyOnSplit]_vars

\* a leaf that had a right sibling was split: the new page took the old pointer
C33_Witness ==
  /\ result = Res("insert", TRUE, "", "tree")
  /\ \E L \in LeafPages :
       /\ PageAt(L).rightSibling = header.totalPages - 1
       /\ PageAt(header.totalPages - 1).type = PAGE_TYPE.LEAF_NODE
       /\ PageAt(header.totalPages - 1).rightSibling # 0
       /\ PageAt(header.totalPages - 1).rightSibling \in LeafPages \ {L}

\* ------------------------------------------------------------------
\* C34: after any sequence of inserts, following the right-sibling
\* pointers from the leaf reached by leftmost-child descent from the root
\* until a zero pointer visits every leaf reachable from the root exactly
\* once and no other page, so scan() terminates.
\* ------------------------------------------------------------------
\* the pages the loop of scan visits from page n, stopped after `fuel` pages
RECURSIVE SiblingChain(_, _)
SiblingChain(n, fuel) ==
  IF n = 0 \/ fuel = 0 THEN <<>>
  ELSE <<n>> \o SiblingChain(PageAt(n).rightSibling, fuel - 1)

C34_ChainVisitsEveryLeafOnce ==
  \E first \in {findLeftmostLeaf(Pager, TreeRoot)} :
    \E chain \in {SiblingChain(first.data, Len(file) + 1)} :
      /\ first.success
      /\ Len(chain) >= 1
      /\ Len(chain) <= Len(file)
      /\ PageAt(chain[Len(chain)]).rightSibling = 0
      /\ \A i \in 1..Len(chain) : chain[i] \in 2..(header.totalPages - 1) /\ IsLeaf(chain[i])
      /\ \A i, j \in 1..Len(chain) : i # j => chain[i] # chain[j]
      /\ {chain[i] : i \in 1..Len(chain)} = LeavesUnder(TreeRoot)
      /\ \E sc \in {scan(Pager, TreeRoot)} :
           /\ sc.success
           /\ [i \in 1..Len(sc.data) |-> sc.data[i].key] = KeysInOrder(KeysUnder(TreeRoot))

\* a chain over five leaves of a tree of height 3 that does not follow page order
C34_Witness ==
  /\ Height(TreeRoot) = 3
  /\ \E chain \in {SiblingChain(findLeftmostLeaf(Pager, TreeRoot).data, Len(file) + 1)} :
       /\ Len(chain) >= 5
       /\ \E i \in 1..(Len(chain) - 1) : chain[i] > chain[i + 1]

\* ------------------------------------------------------------------
\* One BTree whose constructor assigns other tuning constants (SpecTuned):
\* maxLeafCells and maxInternalKeys are chosen independently from
\* TuningValues in place of the 4 and 4 of the constructor
\* ------------------------------------------------------------------
TuningValues == 2..4
\* keys 0..MaxTunedKey are offered in any order, the keys above them in ascending order up to MaxTunedAscKey
MaxTunedKey == 4
MaxTunedAscKey == 10

InitTuned ==
  LET created == BTreeCreate(PagerOpenNew)
  IN  /\ file = created.pager.file
      /\ header = created.pager.header
      /\ tables = <<>>
      /\ btrees = <<[lname |-> "tree", rootPageNum |-> created.root]>>
      /\ opened = TRUE
      /\ result = NoResult
      /\ inserted = {}
      /\ maxLeafCells \in TuningValues
      /\ maxInternalKeys \in TuningValues
      /\ pc = "idle"

\* tree.insert({ key, values })
TunedInsert(key, values) ==
  /\ opened
  /\ key <= MaxTunedKey \/ key = Max(InsertedKeys("tree") \cup {MaxTunedKey}) + 1
  /\ \E r \in {insert(Pager, btrees[1].rootPageNum, [key |-> key, values |-> values])} :
       /\ file' = r.pager.file
       /\ header' = r.pager.header
       /\ btrees' = [btrees EXCEPT ![1].rootPageNum = r.root]
       /\ result' = Res("insert", r.success, r.error, "tree")
       /\ inserted' = IF r.success
                        THEN Remember(inserted, "tree", [key |-> key, values |-> values])
                        ELSE inserted
  /\ UNCHANGED <<tables, opened, maxLeafCells, maxInternalKeys, pc>>

NextTuned == \E key \in 0..MaxTunedAscKey : \E values \in TreeRows(key) : TunedInsert(key, values)

SpecTuned == InitTuned /\ [][NextTuned]_vars

\* ------------------------------------------------------------------
\* C35: for tuning constants maxLeafCells >= 2 and maxInternalKeys >= 2
\* chosen independently (each of 2, 3, 4), after any sequence of inserts
\* the leaf-order, routing and equal-leaf-depth invariants hold, no
\* internal node has zero keys, and scan() returns the sorted set of the
\* inserted keys.
\* ------------------------------------------------------------------
C35_AnyTuning ==
  /\ maxLeafCells >= 2 /\ maxInternalKeys >= 2
  /\ C4_LeafOrder
  /\ C5_Routing
  /\ C6_Balanced
  /\ \A n \in InternalPages : PageAt(n).keyCount >= 1
  /\ InternalPages = InternalsUnder(TreeRoot)
  /\ \E sc \in {scan(Pager, TreeRoot)} :
       /\ sc.success
       /\ [i \in 1..Len(sc.data) |-> sc.data[i].key] = KeysInOrder(InsertedKeys("tree"))
       /\ {[lname |-> "tree", key |-> sc.data[i].key, values |-> sc.data[i].values] : i \in 1..Len(sc.data)} = inserted

\* unequal constants below the constructor's: an internal node of a tree of height 3 has split
C35_Witness ==
  /\ maxLeafCells = 3
  /\ maxInternalKeys = 2
  /\ Height(TreeRoot) >= 3
  /\ 0 \in InsertedKeys("tree")

\* ------------------------------------------------------------------
\* C36: after every completed operation page 0 is the header, page 1 the
\* catalog, and every page in [2, totalPages) is a leaf or an internal
\* node that is reachable from the catalog root of exactly one table and
\* has exactly one parent, or is that root: no page is orphaned, none is
\* shared between two trees or two parents.
\* ------------------------------------------------------------------
\* the root pages the catalog page on disk records
CatalogRoots ==
  LET entries == loadSchema(Pager).tables
  IN  [i \in 1..Len(entries) |-> entries[i].rootPageNum]

\* the (internal page, child slot) pairs that point to page n
ParentsOf(n) ==
  {pair \in InternalPages \X (1..(maxInternalKeys + 1)) :
     /\ pair[2] <= Len(ChildSeq(PageAt(pair[1])))
     /\ ChildSeq(PageAt(pair[1]))[pair[2]] = n}

C36_EveryPageInOneTree ==
  /\ "magic" \in DOMAIN file[1] /\ file[1].magic = MAGIC_NUMBER
  /\ header.schemaPage = 1 /\ file[2].type = PAGE_TYPE.SCHEMA
  /\ Len(file) = header.totalPages
  /\ \E roots \in {CatalogRoots} :
       /\ Len(roots) = Len(tables)
       /\ \A i \in 1..Len(roots) : roots[i] = tables[i].rootPageNum
       /\ \A n \in 2..(header.totalPages - 1) :
            /\ PageAt(n).type \in {PAGE_TYPE.LEAF_NODE, PAGE_TYPE.INTERNAL_NODE}
            /\ Cardinality({i \in 1..Len(roots) : n \in NodesUnder(roots[i])}) = 1
            /\ Cardinality(ParentsOf(n)) = IF \E i \in 1..Len(roots) : roots[i] = n THEN 0 ELSE 1

\* two tables, one of them with a root over two leaves, the other table created after the split
C36_Witness ==
  /\ Len(tables) = 2
  /\ header.totalPages = 6
  /\ \E i, j \in 1..2 :
       /\ ~IsLeaf(tables[i].rootPageNum)
       /\ IsLeaf(tables[j].rootPageNum)
       /\ tables[j].rootPageNum > tables[i].rootPageNum

\* ------------------------------------------------------------------
\* C37: after every completed insert every leaf holds at most
\* maxLeafCells cells and every internal node between 1 and
\* maxInternalKeys keys; every leaf other than the root holds at least
\* floor((maxLeafCells + 1) / 2) cells and every internal node other than
\* the root at least floor(maxInternalKeys / 2) keys.
\* ------------------------------------------------------------------
C37_Occupancy ==
  /\ \A n \in LeavesUnder(TreeRoot) :
       /\ PageAt(n).cellCount <= maxLeafCells
       /\ Len(PageAt(n).cells) = PageAt(n).cellCount
       /\ n # TreeRoot => PageAt(n).cellCount >= (maxLeafCells + 1) \div 2
  /\ \A n \in InternalsUnder(TreeRoot) :
       /\ PageAt(n).keyCount >= 1
       /\ PageAt(n).keyCount <= maxInternalKeys
       /\ Len(PageAt(n).entries) = PageAt(n).keyCount
       /\ n # TreeRoot => PageAt(n).keyCount >= maxInternalKeys \div 2

\* after an internal split: internal nodes at the lower bound, a full leaf and a leaf at the lower bound
C37_Witness ==
  /\ result = Res("insert", TRUE, "", "tree")
  /\ Height(TreeRoot) = 3
  /\ \E n \in InternalsUnder(TreeRoot) \ {TreeRoot} : PageAt(n).keyCount = maxInternalKeys \div 2
  /\ \E n \in LeavesUnder(TreeRoot) : PageAt(n).cellCount = maxLeafCells
  /\ \E n \in LeavesUnder(TreeRoot) : PageAt(n).cellCount = (maxLeafCells + 1) \div 2

\* ------------------------------------------------------------------
\* C38: tables are isolated: an INSERT into table A, successful or failed,
\* with or without splits and a new root, changes no page of the tree of
\* another table B and leaves B's catalog entry (name, columns, root page)
\* as it was, so SELECT on B returns the same rows before and after.
\* ------------------------------------------------------------------
Untouched(B) ==
  /\ MapHas(tables', B.lname)
  /\ MapGet(tables', B.lname) = B
  /\ MapGet(btrees', B.lname) = MapGet(btrees, B.lname)
  /\ \A n \in NodesUnder(B.rootPageNum) : file'[n + 1] = file[n + 1]
  /\ CatalogEntry(file', header', B.lname) = CatalogEntry(file, header, B.lname)
  /\ selectAll(DbNext, B.lname) = selectAll(Db, B.lname)

C38_TablesIsolated ==
  [][result'.op = "insert" =>
       \A i \in 1..Len(tables) : tables[i].lname # result'.table => Untouched(tables[i])]_vars

\* the fifth row of posts split its root leaf while users holds a row
C38_Witness ==
  /\ result = Res("insert", TRUE, "", "posts")
  /\ MapHas(tables, "users") /\ MapHas(tables, "posts")
  /\ Len(scanOf(Db, "posts")) = maxLeafCells + 1
  /\ ~IsLeaf(RootOf("posts"))
  /\ Len(scanOf(Db, "users")) >= 1
  /\ RootOf("users") < RootOf("posts")

\* ------------------------------------------------------------------
\* C39: a successful insert whose target leaf holds fewer than
\* maxLeafCells cells before the call modifies exactly one page, the
\* target leaf, allocates no page and leaves the root page number and
\* every internal node as they were; in general an insert allocates
\* exactly one page per node split, plus one when a new root is created.
\* ------------------------------------------------------------------
\* the nodes that hold fewer entries after the step than before: the nodes that split
SplitNodes ==
  {n \in 2..(Len(file) - 1) :
     IF IsLeaf(n) THEN file'[n + 1].cellCount < PageAt(n).cellCount
     ELSE file'[n + 1].keyCount < PageAt(n).keyCount}

OnePageWritten(p) ==
  /\ header' = header
  /\ Len(file') = Len(file)
  /\ btrees' = btrees
  /\ file'[p + 1] # file[p + 1]
  /\ file'[p + 1].cellCount = PageAt(p).cellCount + 1
  /\ \A x \in 1..Len(file) : x # p + 1 => file'[x] = file[x]

C39_InsertFrame ==
  [][/\ \A k \in NewKeys : \E p \in {TargetLeaf(k)} :
          /\ PageAt(p).cellCount < maxLeafCells => OnePageWritten(p)
          /\ PageAt(p).cellCount = maxLeafCells => p \in SplitNodes
     /\ header'.totalPages - header.totalPages
          = Cardinality(SplitNodes) + (IF btrees'[1].rootPageNum # TreeRoot THEN 1 ELSE 0)
     /\ Len(file') = header'.totalPages]_vars

\* the sixth key went into one of the two leaves of the first split, which had room
C39_Witness ==
  /\ result = Res("insert", TRUE, "", "tree")
  /\ Cardinality(inserted) = maxLeafCells + 2
  /\ Height(TreeRoot) = 2
  /\ header.totalPages = 5

\* ------------------------------------------------------------------
\* A Database with its read-only operations as steps (SpecReads): CREATE
\* and INSERT as in Spec, and SELECT, BTree.search, BTree.scan,
\* getRootPageNum, Pager.readPage and getHeader on the open database
\* ------------------------------------------------------------------
readOnlyAllocating(db, res) == Outcome(res, allocatePage(db.pager).pager, db.tables, db.btrees)

\* what a read-only operation leaves behind: it calls readPage only, never
\* writePage / allocatePage, and assigns no field of Pager, BTree or Database
readOnly(db, res) == Outcome(res, db.pager, db.tables, db.btrees)

\* getHeader returns a copy of the header
getHeader(pg) == pg.header

ReadStmts == SelectStmts \cup {Sel("nope", <<"*">>, <<>>), Sel("users", <<"age">>, <<>>)}
ReadTables == {"users", "posts"}
ReadOps == {"select", "search", "scan", "rootPage", "readPage", "header"}

ReadStep(outcome) ==
  /\ opened
  /\ Becomes(outcome)
  /\ UNCHANGED <<opened, inserted, maxLeafCells, maxInternalKeys, pc>>

\* db.execute({ type: "SELECT", ... })
ReadSelect(stmt) == ReadStep(readOnly(Db, executeSelect(Db, stmt)))

\* tree.search(key) on the tree of a table
ReadSearch(lname, key) ==
  /\ MapHas(btrees, lname)
  /\ \E r \in {search(Pager, RootOf(lname), key)} :
       ReadStep(readOnly(Db, Res("search", r.success, IF r.found THEN "" ELSE "null", lname)))

\* tree.scan() on the tree of a table
ReadScan(lname) ==
  /\ MapHas(btrees, lname)
  /\ \E r \in {scan(Pager, RootOf(lname))} : ReadStep(readOnly(Db, Res("scan", r.success, r.error, lname)))

\* tree.getRootPageNum()
ReadRootPage(lname) ==
  /\ MapHas(btrees, lname)
  /\ ReadStep(readOnly(Db, Res("rootPage", RootOf(lname) >= 2, "", lname)))

\* pager.readPage(pageNum)
ReadPage(pageNum) ==
  \E r \in {readPage(Pager, pageNum)} : ReadStep(readOnly(Db, Res("readPage", r.success, r.error, "")))

\* pager.getHeader()
ReadHeader ==
  ReadStep(readOnly(Db, Res("header", getHeader(Pager).totalPages = Len(file), "", "")))

NextReads ==
  \/ \E stmt \in CreateStmts : ExecuteCreate(stmt)
  \/ \E stmt \in InsertStmts : ExecuteInsert(stmt)
  \/ \E stmt \in ReadStmts : ReadSelect(stmt)
  \/ \E lname \in ReadTables : \E key \in 1..MaxPk : ReadSearch(lname, key)
  \/ \E lname \in ReadTables : ReadScan(lname)
  \/ \E lname \in ReadTables : ReadRootPage(lname)
  \/ \E pageNum \in {-1, 0, 2, header.totalPages} : ReadPage(pageNum)
  \/ ReadHeader

SpecReads == Init /\ [][NextReads]_vars

====
